---- MODULE Spec2Model ----
(***************************************************************************)
(* Data-ingestion layer of koysor/quant-finance: the token-bucket rate     *)
(* limiter, the exponential-backoff retry strategy, the DuckDB cache and   *)
(* the cache-or-fetch orchestration of BaseFetcher / EquityFetcher.        *)
(*                                                                         *)
(* Time is a discrete clock `now` (ticks).  The token balance is kept as   *)
(* an integer number of 1/TicksPerToken tokens, the limiter's rate being   *)
(* tokens_per_second = 1/TicksPerToken tokens per tick, so that            *)
(* elapsed * tokens_per_second and deficit / tokens_per_second are exact.  *)
(***************************************************************************)
EXTENDS Integers, Sequences, FiniteSets, TLC

VARIABLES
    now,          \* the wall clock read by time.time() / datetime.now()
    bucket_size,  \* TokenBucketLimiter.bucket_size
    tokens,       \* TokenBucketLimiter.tokens, in units of 1/TicksPerToken token
    last_update,  \* TokenBucketLimiter.last_update
    lock,         \* TokenBucketLimiter._lock: the thread holding it, or "free"
    thr,          \* per thread: its position inside TokenBucketLimiter.acquire
    hist,         \* history: tokens debited, reset calls, acquire calls, fetcher calls
    config,       \* DataIngestionConfig of the fetcher
    store,        \* DuckDBCache: per table, the rows by cache_key
    fx,           \* the caller of the fetcher: its position in get_cached_or_fetch
    ctor,         \* the last construction of a limiter or of a retry strategy
    rx,           \* the caller of ExponentialBackoffRetry.execute: its position in the loop
    calc,         \* the last call of calculate_delay: its instance, its argument, its result
    cx,           \* per thread: its position inside a DuckDBCache / CacheManager call
    ret,          \* the cache call that returned last: its arguments and its result
    px,           \* the last call of a pure function: its name, its arguments, its result
    ox            \* OptionsFetcher: its _last_expiration and its callers' positions

limVars == <<bucket_size, tokens, last_update, lock, thr, hist>>
fetchVars == <<config, store, fx>>
retryVars == <<rx, calc>>
cacheVars == <<cx, ret>>
vars == <<now, bucket_size, tokens, last_update, lock, thr, hist, config, store, fx, ctor,
          rx, calc, cx, ret, px, ox>>

(***************************************************************************)
(* Bounds of the model.                                                    *)
(***************************************************************************)
MaxTime == 3          \* the free-running clock stops ticking here
MaxBurst == 2         \* bucket_size of the limiter studied on its own
TicksPerToken == 2    \* 1 / tokens_per_second, in ticks
MaxTimeout == 1       \* largest timeout one acquire is given
MaxResets == 1        \* reset() calls in one behaviour
MaxAcquires == 3      \* acquire calls in one behaviour
MaxCalls == 2         \* calls of the fetcher in one behaviour
MaxTtl == 2           \* the positive default_ttl_seconds the configuration is given
rate_limit_burst == 1 \* bucket_size of the fetcher's limiter
MaxParam == 2         \* constructor arguments range over -1..MaxParam
MaxRetriesArg == 2    \* execute is studied with max_retries in 0..MaxRetriesArg
MaxDelayArg == 3      \* base_delay and max_delay range over 1..MaxDelayArg and 60
MaxAttempt == 6       \* calculate_delay is asked about attempts 0..MaxAttempt and more
MaxCacheTime == 2     \* the clock of the cache stops ticking here
CacheTtl == 1         \* the positive ttl_seconds the cache is given
MaxMaturities == 3    \* longest maturities list a fixed income key is built for
MaxStrike == 3        \* strikes are 0..MaxStrike and 2^53 + (-MaxPremium..MaxStrike)
MaxPremium == 2       \* premiums are 0..MaxPremium
MaxFragments == 2     \* message fragments in one exception that leaves the fetch
MaxMinCount == 2      \* min_expired_count ranges over 0..MaxMinCount and the default

None == -1            \* Python's None for the optional timeout (timeouts are >= 0)

Min(a, b) == IF a <= b THEN a ELSE b

Capacity == bucket_size * TicksPerToken        \* float(bucket_size), in token units
Units(n) == n * TicksPerToken                  \* n whole tokens, in token units

Threads == {"t1", "t2"}

\* Requests: an invalid one, the default of throttle(), one the bucket can never hold.
RequestValues == {0, 1, bucket_size + 1}
TimeoutValues == {None} \cup 0..MaxTimeout

\* A thread outside acquire.  Only the outcome of its last call is kept, and the size
\* of the request when that outcome is False.
IdleFrame ==
    [pc |-> "idle", n |-> 0, blocking |-> FALSE, timeout |-> None,
     start_time |-> 0, wake_at |-> 0, result |-> "none"]

Returned(r, n) == [IdleFrame EXCEPT !.result = r, !.n = IF r = "False" THEN n ELSE 0]

(***************************************************************************)
(* TokenBucketLimiter._refill_tokens: the balance after a refill at clock  *)
(* reading t.  elapsed * tokens_per_second tokens = (t - lu) token units.  *)
(***************************************************************************)
RefillNoCap(tok, lu, t) == tok + (t - lu)

RefillFrozen(tok, lu, t) == Min(Capacity, tok)

RefillTokens(tok, lu, t) == Min(Capacity, tok + (t - lu))

(***************************************************************************)
(* The clock.  It is monotone; it may advance between any two steps of any *)
(* thread, also between two reads of time.time() inside one acquire.       *)
(***************************************************************************)
Tick ==
    /\ now < MaxTime
    /\ now' = now + 1
    /\ UNCHANGED <<ctor, retryVars, cacheVars, limVars, fetchVars, px, ox>>

(***************************************************************************)
(* TokenBucketLimiter.acquire(tokens=n, blocking=b, timeout=to), entry:    *)
(* the argument check and start_time = time.time().  start_time is only    *)
(* ever read when a timeout was given, and is kept only then.              *)
(***************************************************************************)
AcquireCall(t, n, b, to) ==
    /\ thr[t].pc = "idle"
    /\ hist.acquires < MaxAcquires
    /\ hist' = [hist EXCEPT !.acquires = @ + 1]
    /\ IF n <= 0
       THEN thr' = [thr EXCEPT ![t] = Returned("ValueError_tokens", n)]
       ELSE thr' = [thr EXCEPT ![t] = [IdleFrame EXCEPT !.pc = "enter", !.n = n,
                                          !.blocking = b, !.timeout = to,
                                          !.start_time = IF to = None THEN 0 ELSE now]]
    /\ UNCHANGED <<ctor, retryVars, cacheVars, now, bucket_size, tokens, last_update, lock, fetchVars, px, ox>>

(***************************************************************************)
(* Lines 95-121, one pass of the critical section: refill, then debit and  *)
(* return True, or return False when not blocking, or TimeoutError when    *)
(* the timeout has elapsed (one reading of the clock serves the refill and *)
(* this check).  Otherwise the caller keeps the lock and goes on to        *)
(* compute its wait.                                                       *)
(***************************************************************************)
DebitIgnoringBalance(refilled, n) == TRUE

CanDebit(refilled, n) == refilled >= Units(n)

TimedOut(to, start, t) == to # None /\ t - start >= to

AcquireEnter(t) ==
    /\ thr[t].pc = "enter"
    /\ lock = "free"
    /\ LET refilled == RefillTokens(tokens, last_update, now)
           f == thr[t]
       IN
       /\ last_update' = now
       /\ IF CanDebit(refilled, f.n)
          THEN /\ tokens' = refilled - Units(f.n)
               /\ thr' = [thr EXCEPT ![t] = Returned("True", f.n)]
               /\ hist' = [hist EXCEPT !.debited = @ + f.n]
               /\ lock' = lock
          ELSE /\ tokens' = refilled
               /\ hist' = hist
               /\ IF ~f.blocking
                  THEN /\ thr' = [thr EXCEPT ![t] = Returned("False", f.n)]
                       /\ lock' = lock
                  ELSE IF TimedOut(f.timeout, f.start_time, now)
                  THEN /\ thr' = [thr EXCEPT ![t] = Returned("TimeoutError", f.n)]
                       /\ lock' = lock
                  ELSE /\ thr' = [thr EXCEPT ![t].pc = "calc_wait"]
                       /\ lock' = t
    /\ UNCHANGED <<ctor, retryVars, cacheVars, now, bucket_size, fetchVars, px, ox>>

(***************************************************************************)
(* Lines 123-134: wait_time = deficit / tokens_per_second, capped by the   *)
(* remaining time, which is computed from a further reading of the clock;  *)
(* the lock is released and time.sleep(wait_time) is called.  time.sleep   *)
(* raises ValueError for a negative argument.                              *)
(***************************************************************************)
WaitTime(tok, n, to, start, t) ==
    LET deficit == Units(n) - tok
        wait_time == deficit    \* deficit / tokens_per_second, in ticks
    IN  IF to # None THEN Min(wait_time, to - (t - start)) ELSE wait_time

AcquireCalcWait(t) ==
    /\ thr[t].pc = "calc_wait"
    /\ lock = t
    /\ LET f == thr[t]
           w == WaitTime(tokens, f.n, f.timeout, f.start_time, now)
       IN  IF w < 0
           THEN thr' = [thr EXCEPT ![t] = Returned("ValueError_sleep", f.n)]
           ELSE thr' = [thr EXCEPT ![t].pc = "sleeping", ![t].wake_at = now + w]
    /\ lock' = "free"
    /\ UNCHANGED <<ctor, retryVars, cacheVars, now, bucket_size, tokens, last_update, hist, fetchVars, px, ox>>

(***************************************************************************)
(* time.sleep returns once at least wait_time has passed; the loop starts  *)
(* over.                                                                   *)
(***************************************************************************)
AcquireWake(t) ==
    /\ thr[t].pc = "sleeping"
    /\ now >= thr[t].wake_at
    /\ thr' = [thr EXCEPT ![t].pc = "enter", ![t].wake_at = 0]
    /\ UNCHANGED <<ctor, retryVars, cacheVars, now, bucket_size, tokens, last_update, lock, hist, fetchVars, px, ox>>

(***************************************************************************)
(* The same critical section statement by statement, for the questions     *)
(* about the lock itself: `with self._lock` is entered (line 95), the      *)
(* bucket is refilled (96), the balance is compared with the request (99), *)
(* the request is debited and the lock released by the return (100-105).   *)
(* threading.Lock is not reentrant and is free when nobody is inside a     *)
(* `with self._lock` block.                                                *)
(***************************************************************************)
LockIgnored(l) == TRUE

LockFree(l) == l = "free"

LockAcquire(t) ==
    /\ thr[t].pc = "enter"
    /\ LockFree(lock)
    /\ lock' = t
    /\ thr' = [thr EXCEPT ![t].pc = "locked"]
    /\ UNCHANGED <<ctor, retryVars, cacheVars, now, bucket_size, tokens, last_update, hist, fetchVars, px, ox>>

LockedRefill(t) ==
    /\ thr[t].pc = "locked"
    /\ tokens' = RefillTokens(tokens, last_update, now)
    /\ last_update' = now
    /\ thr' = [thr EXCEPT ![t].pc = "refilled"]
    /\ UNCHANGED <<ctor, retryVars, cacheVars, now, bucket_size, lock, hist, fetchVars, px, ox>>

LockedCheck(t) ==
    /\ thr[t].pc = "refilled"
    /\ LET f == thr[t] IN
       IF CanDebit(tokens, f.n)
       THEN /\ thr' = [thr EXCEPT ![t].pc = "debit"]
            /\ lock' = lock
       ELSE IF ~f.blocking
       THEN /\ thr' = [thr EXCEPT ![t] = Returned("False", f.n)]
            /\ lock' = "free"
       ELSE IF TimedOut(f.timeout, f.start_time, now)
       THEN /\ thr' = [thr EXCEPT ![t] = Returned("TimeoutError", f.n)]
            /\ lock' = "free"
       ELSE /\ thr' = [thr EXCEPT ![t].pc = "calc_wait"]
            /\ lock' = lock
    /\ UNCHANGED <<ctor, retryVars, cacheVars, now, bucket_size, tokens, last_update, hist, fetchVars, px, ox>>

LockedDebit(t) ==
    /\ thr[t].pc = "debit"
    /\ tokens' = tokens - Units(thr[t].n)
    /\ hist' = [hist EXCEPT !.debited = @ + thr[t].n]
    /\ thr' = [thr EXCEPT ![t] = Returned("True", thr[t].n)]
    /\ lock' = "free"
    /\ UNCHANGED <<ctor, retryVars, cacheVars, now, bucket_size, last_update, fetchVars, px, ox>>

(***************************************************************************)
(* TokenBucketLimiter.get_available_tokens: refill under the lock.         *)
(***************************************************************************)
GetAvailableTokens(t) ==
    /\ thr[t].pc = "idle"
    /\ lock = "free"
    /\ tokens' = RefillTokens(tokens, last_update, now)
    /\ last_update' = now
    /\ UNCHANGED <<ctor, retryVars, cacheVars, now, bucket_size, lock, thr, hist, fetchVars, px, ox>>

(***************************************************************************)
(* TokenBucketLimiter.reset: back to full capacity, under the lock.        *)
(***************************************************************************)
Reset(t) ==
    /\ thr[t].pc = "idle"
    /\ lock = "free"
    /\ hist.resets < MaxResets
    /\ tokens' = Capacity
    /\ last_update' = now
    /\ hist' = [hist EXCEPT !.resets = @ + 1]
    /\ UNCHANGED <<ctor, retryVars, cacheVars, now, bucket_size, lock, thr, fetchVars, px, ox>>

(***************************************************************************)
(* Exceptions.  A message is the set of the fragments of its lower-cased   *)
(* text that some classification looks for; wrapping a message in an       *)
(* f-string keeps its fragments and adds those of the prefix.              *)
(***************************************************************************)
Exc(type, msg, cause) == [kind |-> "exception", type |-> type, msg |-> msg, cause |-> cause]

NoCause == [kind |-> "None"]

\* exceptions.py: the class hierarchy, as the set of classes each type is an instance of.
Bases(type) ==
    CASE type = "FetchError"          -> {"FetchError", "DataIngestionError", "Exception"}
      [] type = "RateLimitError"      -> {"RateLimitError", "FetchError", "DataIngestionError", "Exception"}
      [] type = "SymbolNotFoundError" -> {"SymbolNotFoundError", "FetchError", "DataIngestionError", "Exception"}
      [] type = "ValidationError"     -> {"ValidationError", "DataIngestionError", "Exception"}
      [] type = "CacheError"          -> {"CacheError", "DataIngestionError", "Exception"}
      [] type = "ConfigurationError"  -> {"ConfigurationError", "DataIngestionError", "Exception"}
      [] OTHER                        -> {type, "Exception"}

IsInstance(e, cls) == cls \in Bases(e.type)

(***************************************************************************)
(* ExponentialBackoffRetry.                                                *)
(***************************************************************************)
max_retries == 3          \* DataIngestionConfig.max_retries
retry_base_delay == 1     \* DataIngestionConfig.retry_base_delay
retry_max_delay == 60     \* DataIngestionConfig.retry_max_delay
exponential_base == 2     \* ExponentialBackoffRetry.__init__ default

RetryableFragments ==
    {"timeout", "connection", "network", "temporary", "unavailable",
     "500", "502", "503", "504"}

ShouldRetryNever(e) == FALSE

ShouldRetryByMessage(e) == e.msg \cap RetryableFragments # {}

\* ExponentialBackoffRetry.should_retry
ShouldRetry(e) ==
    IF IsInstance(e, "ValidationError") \/ IsInstance(e, "SymbolNotFoundError") THEN FALSE
    ELSE IF IsInstance(e, "RateLimitError") THEN TRUE
    ELSE IF IsInstance(e, "FetchError") THEN TRUE
    ELSE e.msg \cap RetryableFragments # {}

\* Python floats: x ** n raises OverflowError once the power reaches 2^FloatMaxExp
\* (sys.float_info.max_exp); the bases of the model are powers of two, so that the
\* comparison is one of exponents.
min_expired_count == 10
FloatMaxExp == 1024

Log2(base) == CASE base = 2 -> 1 [] base = 4 -> 2

OverflowError == Exc("OverflowError", {"numerical result out of range"}, NoCause)

Float(x) == [kind |-> "float", value |-> x]

\* ExponentialBackoffRetry.calculate_delay of an instance with these attributes:
\* delay = base_delay * (exponential_base ** attempt); return min(delay, max_delay).
\* A power of 2^20 or more is above every max_delay of the model, so that the minimum
\* is max_delay.
CalculateDelayOf(base_delay, max_delay, base, attempt) ==
    IF Log2(base) * attempt >= FloatMaxExp THEN OverflowError
    ELSE IF Log2(base) * attempt >= 20 THEN Float(max_delay)
    ELSE Float(Min(base_delay * (base ^ attempt), max_delay))

\* calculate_delay of the fetcher's retry strategy (the configured delays).
CalculateDelay(attempt) ==
    CalculateDelayOf(retry_base_delay, retry_max_delay, exponential_base, attempt).value

(***************************************************************************)
(* DuckDBCache.  A table is a function from the cache keys it holds        *)
(* (cache_key is the primary key) to rows.                                 *)
(***************************************************************************)
KnownTables == {"equity_cache", "options_cache", "fixed_income_cache"}

NoneValue == [kind |-> "None"]

Pickle(data) == <<"pickle", data>>
Unpickle(blob) == blob[2]

EmptyStore == [tb \in KnownTables |-> <<>>]

Without(f, k) == [x \in DOMAIN f \ {k} |-> f[x]]

\* DuckDBCache.get: the payload of the row with this key and expires_at > now.
CacheGetIgnoringExpiry(st, key, table, t) ==
    IF table \notin KnownTables THEN NoneValue
    ELSE IF key \in DOMAIN st[table]
         THEN Unpickle(st[table][key].data)
         ELSE NoneValue

CacheGetInclusive(st, key, table, t) ==
    IF table \notin KnownTables THEN NoneValue
    ELSE IF key \in DOMAIN st[table] /\ st[table][key].expires_at >= t
         THEN Unpickle(st[table][key].data)
         ELSE NoneValue

CacheGet(st, key, table, t) ==
    IF table \notin KnownTables THEN NoneValue
    ELSE IF key \in DOMAIN st[table] /\ st[table][key].expires_at > t
         THEN Unpickle(st[table][key].data)
         ELSE NoneValue

\* DuckDBCache.set: the columns each table keeps of the metadata.
MetaColumns(table, metadata) ==
    LET get(k) == IF k \in DOMAIN metadata THEN metadata[k] ELSE "NULL" IN
    CASE table = "equity_cache" ->
            [symbol |-> get("symbol"), start_date |-> get("start_date"),
             end_date |-> get("end_date"), interval |-> get("interval")]
      [] table = "options_cache" ->
            [symbol |-> get("symbol"), expiration_date |-> get("expiration")]
      [] table = "fixed_income_cache" ->
            [instrument |-> get("instrument"), maturity |-> get("maturity"),
             start_date |-> get("start_date"), end_date |-> get("end_date")]

\* DuckDBCache.set on a known table: INSERT OR REPLACE of the row.
CacheSetAlreadyExpired(st, key, data, table, ttl_seconds, metadata, t) ==
    [st EXCEPT ![table] =
        (key :> [data |-> Pickle(data), created_at |-> t, expires_at |-> t,
                 meta |-> MetaColumns(table, metadata)]) @@ @]

CacheSetKeepingCreation(st, key, data, table, ttl_seconds, metadata, t) ==
    [st EXCEPT ![table] =
        (key :> [data |-> Pickle(data),
                 created_at |-> IF key \in DOMAIN @ THEN @[key].created_at ELSE t,
                 expires_at |-> t + ttl_seconds,
                 meta |-> MetaColumns(table, metadata)]) @@ @]

CacheSet(st, key, data, table, ttl_seconds, metadata, t) ==
    [st EXCEPT ![table] =
        (key :> [data |-> Pickle(data), created_at |-> t,
                 expires_at |-> t + ttl_seconds,
                 meta |-> MetaColumns(table, metadata)]) @@ @]

\* DuckDBCache.invalidate(cache_key, table) with both given: DELETE ... WHERE cache_key = ?
CacheInvalidateTableOf(st, key, table) == [st EXCEPT ![table] = <<>>]

CacheInvalidateKey(st, key, table) == [st EXCEPT ![table] = Without(@, key)]

\* DuckDBCache.get_cache_stats()["tables"][table]["active_entries"]
ActiveEntries(st, table, t) ==
    Cardinality(DOMAIN st[table])
      - Cardinality({k \in DOMAIN st[table] : st[table][k].expires_at <= t})

(***************************************************************************)
(* The provider (yfinance) and the data it returns.  A frame is described  *)
(* by what DataValidator.validate_equity_data looks at.                    *)
(***************************************************************************)
Frame(id, rows, cols, nonpos, hilo) ==
    [kind |-> "DataFrame", id |-> id, rows |-> rows, has_columns |-> cols,
     nonpositive |-> nonpos, high_lt_low |-> hilo]

GoodFrame == Frame(1, 252, TRUE, FALSE, FALSE)
NonPositiveFrame == Frame(2, 252, TRUE, TRUE, FALSE)
EmptyFrame == Frame(3, 0, TRUE, FALSE, FALSE)

ProviderFrames == {GoodFrame, NonPositiveFrame, EmptyFrame}

ProviderErrors ==
    { Exc("Exception", {"429", "too many requests"}, NoCause),
      Exc("Exception", {"404", "not found"}, NoCause),
      Exc("Exception", {"503", "unavailable"}, NoCause) }

\* DataValidator.validate_equity_data (the null checks are left out: no frame of the
\* model holds nulls).
ValidateAcceptAll(df, strict) == TRUE

ValidateEquityData(df, strict) ==
    IF ~df.has_columns THEN FALSE
    ELSE IF df.rows = 0 THEN FALSE
    ELSE IF df.nonpositive /\ strict THEN FALSE
    ELSE IF df.high_lt_low THEN FALSE
    ELSE TRUE

(***************************************************************************)
(* EquityFetcher.                                                          *)
(***************************************************************************)
Symbols == {"AAPL", "MSFT"}

Params(symbol) ==
    [symbol |-> symbol, start_date |-> "2023-01-01", end_date |-> "2023-12-31",
     interval |-> "1d"]

\* EquityFetcher._build_cache_key
BuildCacheKey(p) ==
    "equity:" \o p.symbol \o ":" \o p.start_date \o ":" \o p.end_date \o ":" \o p.interval

\* EquityFetcher._get_cache_metadata
GetCacheMetadata(p) ==
    [symbol |-> p.symbol, start_date |-> p.start_date, end_date |-> p.end_date,
     interval |-> p.interval]

cache_table == "equity_cache"

\* EquityFetcher._validate_data
ValidateData(df) == ValidateEquityData(df, ~config.allow_partial_data)

\* The exception inside _fetch_impl's try block for what yf.download did: the provider's
\* own, or the "No data returned" FetchError of lines 75-78 for an empty frame.
Failure(out) ==
    IF out.kind = "exception" THEN out
    ELSE IF out.rows = 0 THEN Exc("FetchError", {"no data returned"}, NoCause)
    ELSE NoneValue

\* EquityFetcher._fetch_impl, given what yf.download did: every exception, its own
\* "No data returned" FetchError included, leaves as a FetchError wrapping it.
Wrapped(e) == Exc("FetchError", e.msg \cup {"failed to fetch equity data"}, e)

FetchImpl(out) ==
    IF Failure(out) # NoneValue
    THEN [ok |-> FALSE, exc |-> Wrapped(Failure(out))]
    ELSE [ok |-> TRUE, value |-> out]

\* str(error).lower(): the messages of the model are in lower case but for these
LowerOf(s) ==
    CASE s = "Not Found" -> "not found"
      [] s = "Too Many Requests" -> "too many requests"
      [] OTHER -> s

Lower(msg) == {LowerOf(s) : s \in msg}

HandleFetchErrorRateFirst(e) ==
    LET error_msg == Lower(e.msg) IN
    IF error_msg \cap {"429", "rate limit", "too many requests"} # {}
    THEN Exc("RateLimitError", e.msg \cup {"rate limit exceeded", "rate limit"}, e)
    ELSE IF error_msg \cap {"404", "not found", "no data found"} # {}
    THEN Exc("SymbolNotFoundError", e.msg \cup {"symbol not found", "not found"}, e)
    ELSE IF error_msg \cap {"500", "502", "503", "504"} # {}
    THEN Exc("FetchError", e.msg \cup {"server error"}, e)
    ELSE Exc("FetchError", e.msg \cup {"failed to fetch data"}, e)

\* BaseFetcher._handle_fetch_error: the classified exception it raises, chained to the
\* original.
HandleFetchError(e) ==
    LET error_msg == Lower(e.msg) IN
    IF error_msg \cap {"404", "not found", "no data found"} # {}
    THEN Exc("SymbolNotFoundError", e.msg \cup {"symbol not found", "not found"}, e)
    ELSE IF error_msg \cap {"429", "rate limit", "too many requests"} # {}
    THEN Exc("RateLimitError", e.msg \cup {"rate limit exceeded", "rate limit"}, e)
    ELSE IF error_msg \cap {"500", "502", "503", "504"} # {}
    THEN Exc("FetchError", e.msg \cup {"server error"}, e)
    ELSE Exc("FetchError", e.msg \cup {"failed to fetch data"}, e)

\* The provider's original exception under the wrappings.
RECURSIVE RootCause(_)
RootCause(e) == IF e.cause.kind = "None" THEN e ELSE RootCause(e.cause)

Caller == "main"

\* The caller outside any call; the fields record its last call: what it was, the table
\* and the time when it began (before, t0), what the provider did in it (mode, data),
\* how often each stage ran, which cache operation failed, and how and when it ended.
IdleFx ==
    [pc |-> "idle", op |-> "none", symbol |-> "", use_cache |-> FALSE, cache_key |-> "",
     before |-> <<>>, t0 |-> 0, mode |-> NoneValue, data |-> NoneValue,
     attempt |-> 0, wake_at |-> 0,
     calls |-> 0, sleeps |-> 0, acquired |-> 0, validated |-> 0, sets |-> 0,
     get_failed |-> FALSE, set_failed |-> FALSE, invalidate_failed |-> FALSE,
     outcome |-> "none", value |-> NoneValue, at |-> 0]

\* What a finished call leaves in the frame.
Finished(f, outcome, value) ==
    [f EXCEPT !.pc = "idle", !.outcome = outcome, !.value = value, !.at = now,
              !.attempt = 0, !.wake_at = 0]

(***************************************************************************)
(* BaseFetcher.get_cached_or_fetch(use_cache, symbol=..., ...), lines      *)
(* 167-179: the key, and the cache lookup.  `get_fault` is a storage       *)
(* failure inside cache.get, which DuckDBCache.get turns into CacheError.  *)
(***************************************************************************)
GetCachedOrFetch(symbol, use_cache, get_fault) ==
    /\ fx.pc = "idle"
    /\ hist.ops < MaxCalls
    /\ hist' = [hist EXCEPT !.ops = @ + 1]
    /\ LET key == BuildCacheKey(Params(symbol))
           f0 == [IdleFx EXCEPT !.op = "get_cached_or_fetch", !.symbol = symbol,
                                !.use_cache = use_cache, !.cache_key = key,
                                !.get_failed = use_cache /\ get_fault,
                                !.before = store[cache_table], !.t0 = now]
           cached == CacheGet(store, key, cache_table, now)
       IN  IF use_cache /\ ~get_fault /\ cached # NoneValue
           THEN fx' = Finished(f0, "hit", cached)
           ELSE fx' = [f0 EXCEPT !.pc = "rate_gate"]
    /\ UNCHANGED <<ctor, retryVars, cacheVars, now, bucket_size, tokens, last_update, lock, thr, config, store, px, ox>>

(***************************************************************************)
(* Line 182, `with self.rate_limiter.throttle():` - TokenBucketLimiter     *)
(* .throttle calls acquire(tokens=1, blocking=True), which the caller then *)
(* runs through AcquireEnter, AcquireCalcWait and AcquireWake.             *)
(***************************************************************************)
Throttle ==
    /\ fx.pc = "rate_gate"
    /\ thr[Caller].pc = "idle"
    /\ thr' = [thr EXCEPT ![Caller] = [IdleFrame EXCEPT !.pc = "enter", !.n = 1,
                                          !.blocking = TRUE, !.timeout = None]]
    /\ fx' = [fx EXCEPT !.pc = "throttle"]
    /\ UNCHANGED <<ctor, retryVars, cacheVars, now, bucket_size, tokens, last_update, lock, hist, config, store, px, ox>>

(***************************************************************************)
(* Lines 190-212, for data that the fetch stage returned: validation, the  *)
(* write-through (set_fault is a storage failure inside cache.set, which   *)
(* DuckDBCache.set turns into CacheError) and the return.                  *)
(***************************************************************************)
SwallowsEvery(stage) == TRUE

\* The except clauses of the fetcher: a CacheError of cache.get (lines 178-179) and of
\* cache.set (lines 209-210) is logged; that of cache.invalidate is re-raised (282-284).
SwallowsCacheError(stage) == stage \in {"get", "set"}

AfterFetch(f, data, set_fault) ==
    IF config.validate_data /\ ~ValidateData(data)
    THEN /\ fx' = Finished([f EXCEPT !.validated = 1], "raised",
                           Exc("ValidationError", {"data validation failed"}, NoCause))
         /\ store' = store
    ELSE LET v == IF config.validate_data THEN 1 ELSE 0 IN
         IF ~f.use_cache
         THEN /\ fx' = Finished([f EXCEPT !.validated = v], "fetched", data)
              /\ store' = store
         ELSE IF set_fault
         THEN /\ fx' = IF SwallowsCacheError("set")
                       THEN Finished([f EXCEPT !.validated = v, !.set_failed = TRUE],
                                     "fetched", data)
                       ELSE Finished([f EXCEPT !.validated = v, !.set_failed = TRUE],
                                     "raised", Exc("CacheError", {"failed to write to cache"}, NoCause))
              /\ store' = store
         ELSE /\ fx' = Finished([f EXCEPT !.validated = v, !.sets = 1], "fetched", data)
              /\ store' = CacheSet(store, f.cache_key, data, cache_table,
                                   config.default_ttl_seconds,
                                   GetCacheMetadata(Params(f.symbol)), now)

(***************************************************************************)
(* Lines 183-188 with ExponentialBackoffRetry.execute: one attempt of the  *)
(* loop.  `out` is what the provider does in this attempt; within one call *)
(* the provider fails in one way (fx.mode, fixed by its first failure).    *)
(***************************************************************************)
ReadyWithoutToken ==
    \/ fx.pc = "throttle" /\ thr[Caller].pc \in {"idle", "enter"}
    \/ fx.pc = "backoff" /\ now >= fx.wake_at

ReadyToFetch ==
    \/ fx.pc = "throttle" /\ thr[Caller].pc = "idle" /\ thr[Caller].result = "True"
    \/ fx.pc = "backoff" /\ now >= fx.wake_at

FetchAttempt(out, set_fault) ==
    /\ ReadyToFetch
    /\ Failure(out) # NoneValue => fx.mode \in {NoneValue, Failure(out)}
    /\ LET r == FetchImpl(out)
           f == [fx EXCEPT !.calls = @ + 1,
                           !.mode = IF r.ok THEN @ ELSE Failure(out),
                           !.data = IF r.ok THEN r.value ELSE @,
                           !.acquired = IF fx.pc = "throttle" THEN 1 ELSE @]
       IN  IF r.ok
           THEN AfterFetch(f, r.value, set_fault)
           ELSE IF f.attempt < config.max_retries /\ ShouldRetry(r.exc)
           THEN /\ fx' = [f EXCEPT !.pc = "backoff", !.attempt = @ + 1,
                                   !.sleeps = @ + 1,
                                   !.wake_at = now + CalculateDelay(f.attempt)]
                /\ store' = store
           ELSE /\ fx' = Finished(f, "raised", HandleFetchError(r.exc))
                /\ store' = store
    /\ thr' = [thr EXCEPT ![Caller] = IdleFrame]
    /\ UNCHANGED <<ctor, retryVars, cacheVars, now, bucket_size, tokens, last_update, lock, hist, config, px, ox>>

(***************************************************************************)
(* BaseFetcher.invalidate_cache(symbol=..., ...).  `fault` is a storage    *)
(* failure inside cache.invalidate (CacheError).                           *)
(***************************************************************************)
InvalidateCache(symbol, fault) ==
    /\ fx.pc = "idle"
    /\ hist.ops < MaxCalls
    /\ hist' = [hist EXCEPT !.ops = @ + 1]
    /\ LET key == BuildCacheKey(Params(symbol))
           f0 == [IdleFx EXCEPT !.op = "invalidate_cache", !.symbol = symbol,
                                !.cache_key = key, !.invalidate_failed = fault,
                                !.before = store[cache_table], !.t0 = now]
       IN  IF fault
           THEN /\ fx' = IF SwallowsCacheError("invalidate")
                         THEN Finished(f0, "returned", NoneValue)
                         ELSE Finished(f0, "raised",
                                       Exc("CacheError", {"failed to invalidate cache"}, NoCause))
                /\ store' = store
           ELSE /\ fx' = Finished(f0, "returned", NoneValue)
                /\ store' = CacheInvalidateKey(store, key, cache_table)
    /\ UNCHANGED <<ctor, retryVars, cacheVars, now, bucket_size, tokens, last_update, lock, thr, config, px, ox>>

(***************************************************************************)
(* Time in the fetcher: the clock runs freely between calls; inside a call *)
(* it passes while the caller sleeps (time.sleep in the retry loop and in  *)
(* acquire), the other steps taking no time.                               *)
(***************************************************************************)
Elapse ==
    /\ \/ fx.pc = "idle" /\ now < MaxTime /\ now' = now + 1
       \/ fx.pc = "backoff" /\ now < fx.wake_at /\ now' = fx.wake_at
       \/ /\ fx.pc = "throttle" /\ thr[Caller].pc = "sleeping"
          /\ now < thr[Caller].wake_at /\ now' = thr[Caller].wake_at
    /\ UNCHANGED <<ctor, retryVars, cacheVars, limVars, fetchVars, px, ox>>

(***************************************************************************)
(* Construction.  TokenBucketLimiter.__init__ and                          *)
(* ExponentialBackoffRetry.__init__ check their arguments in order and     *)
(* raise at the first bad one; otherwise the instance holds the arguments  *)
(* as given.  ctor records the last construction: the class, the arguments *)
(* and what came out - the exception raised or the instance.               *)
(***************************************************************************)
NoConstruction == [cls |-> "none", args |-> <<>>, result |-> NoneValue]

ParamValues == -1..MaxParam

TokenBucketLimiterInit(tokens_per_second, size, t) ==
    IF tokens_per_second <= 0
    THEN Exc("ValueError", {"tokens_per_second must be positive"}, NoCause)
    ELSE IF size <= 0
    THEN Exc("ValueError", {"bucket_size must be positive"}, NoCause)
    ELSE [kind |-> "TokenBucketLimiter", tokens_per_second |-> tokens_per_second,
          bucket_size |-> size, tokens |-> size, last_update |-> t]

ExponentialBackoffRetryInit(retries, base_delay, max_delay, base) ==
    IF retries < 0
    THEN Exc("ValueError", {"max_retries must be non-negative"}, NoCause)
    ELSE IF base_delay <= 0
    THEN Exc("ValueError", {"base_delay must be positive"}, NoCause)
    ELSE IF max_delay <= 0
    THEN Exc("ValueError", {"max_delay must be positive"}, NoCause)
    ELSE IF base <= 1
    THEN Exc("ValueError", {"exponential_base must be greater than 1"}, NoCause)
    ELSE [kind |-> "ExponentialBackoffRetry", max_retries |-> retries,
          base_delay |-> base_delay, max_delay |-> max_delay,
          exponential_base |-> base]

ConstructLimiter(tokens_per_second, size) ==
    /\ ctor' = [cls |-> "TokenBucketLimiter", args |-> <<tokens_per_second, size>>,
                result |-> TokenBucketLimiterInit(tokens_per_second, size, now)]
    /\ UNCHANGED <<now, limVars, fetchVars, retryVars, cacheVars, px, ox>>

ConstructRetry(retries, base_delay, max_delay, base) ==
    /\ ctor' = [cls |-> "ExponentialBackoffRetry",
                args |-> <<retries, base_delay, max_delay, base>>,
                result |-> ExponentialBackoffRetryInit(retries, base_delay, max_delay, base)]
    /\ UNCHANGED <<now, limVars, fetchVars, retryVars, cacheVars, px, ox>>

(***************************************************************************)
(* ExponentialBackoffRetry.execute(func) on its own.  The instance has     *)
(* max_retries as given and the default delays.  What func does in each    *)
(* attempt is free: it returns, or it raises one of RetryErrors.  rx       *)
(* records the exceptions func raised (errors), the exceptions             *)
(* should_retry was asked about with its answers (asked), the arguments of *)
(* time.sleep (sleeps) and how the call ended.                             *)
(***************************************************************************)
IdleRx ==
    [pc |-> "idle", max_retries |-> 0, attempt |-> 0, calls |-> 0,
     errors |-> <<>>, asked |-> <<>>, sleeps |-> <<>>,
     outcome |-> "none", value |-> NoneValue]

RetryArgs == 0..MaxRetriesArg

RetryErrors ==
    { Exc("ValidationError", {"data validation failed"}, NoCause),
      Exc("ValidationError", {"timeout"}, NoCause),
      Exc("SymbolNotFoundError", {"symbol not found", "not found", "503"}, NoCause),
      Exc("RateLimitError", {"rate limit exceeded", "rate limit"}, NoCause),
      Exc("FetchError", {"no data returned"}, NoCause),
      Exc("CacheError", {"failed to read from cache", "connection"}, NoCause),
      Exc("CacheError", {"failed to read from cache"}, NoCause),
      Exc("Exception", {"503", "unavailable"}, NoCause),
      Exc("ValueError", {"boom"}, NoCause) }

\* Line 179, the bare `raise` inside the except clause: the exception being handled.
ReraiseWrapped(e) == Exc("FetchError", e.msg, e)

Reraise(e) == e

\* Lines 146-148: execute(func) enters the loop.
Execute(retries) ==
    /\ rx.pc \in {"idle", "done"}
    /\ rx' = [IdleRx EXCEPT !.pc = "attempt", !.max_retries = retries]
    /\ UNCHANGED <<now, limVars, fetchVars, ctor, calc, cacheVars, px, ox>>

\* Lines 149-179: one iteration up to the sleep; `out` is what func does.
RetryAttempt(out) ==
    /\ rx.pc = "attempt"
    /\ LET f == [rx EXCEPT !.calls = @ + 1] IN
       IF out.kind # "exception"
       THEN rx' = [f EXCEPT !.pc = "done", !.outcome = "returned", !.value = out]
       ELSE LET g == [f EXCEPT !.errors = Append(@, out),
                               !.asked = IF f.attempt < f.max_retries
                                         THEN Append(@, <<out, ShouldRetry(out)>>)
                                         ELSE @]
            IN  IF g.attempt < g.max_retries /\ ShouldRetry(out)
                THEN rx' = [g EXCEPT !.pc = "sleep"]
                ELSE rx' = [g EXCEPT !.pc = "done", !.outcome = "raised",
                                     !.value = Reraise(out)]
    /\ UNCHANGED <<now, limVars, fetchVars, ctor, calc, cacheVars, px, ox>>

\* Lines 163-169: time.sleep(self.calculate_delay(attempt)), then the next iteration.
RetrySleep ==
    /\ rx.pc = "sleep"
    /\ rx' = [rx EXCEPT !.pc = "attempt", !.attempt = @ + 1,
                        !.sleeps = Append(@, CalculateDelay(rx.attempt))]
    /\ UNCHANGED <<now, limVars, fetchVars, ctor, calc, cacheVars, px, ox>>

(***************************************************************************)
(* ExponentialBackoffRetry.calculate_delay on its own: an instance that    *)
(* the constructor accepts is asked for the delay of an attempt index.     *)
(* calc records the instance's attributes, the index and what came out.    *)
(***************************************************************************)
NoCalc == [base_delay |-> 0, max_delay |-> 0, exponential_base |-> 0, attempt |-> 0,
           result |-> NoneValue]

DelayValues == 1..MaxDelayArg \cup {retry_max_delay}

BaseValues == {exponential_base, 2 * exponential_base}

AttemptValues ==
    0..MaxAttempt
      \cup {FloatMaxExp \div 2 - 1, FloatMaxExp \div 2, FloatMaxExp - 1, FloatMaxExp}

CalculateDelayCall(base_delay, max_delay, base, attempt) ==
    /\ ExponentialBackoffRetryInit(max_retries, base_delay, max_delay, base).kind
          = "ExponentialBackoffRetry"
    /\ calc' = [base_delay |-> base_delay, max_delay |-> max_delay,
                exponential_base |-> base, attempt |-> attempt,
                result |-> CalculateDelayOf(base_delay, max_delay, base, attempt)]
    /\ UNCHANGED <<now, limVars, fetchVars, ctor, rx, cacheVars, px, ox>>

(***************************************************************************)
(* DuckDBCache and CacheManager on their own: two threads share one cache  *)
(* and call get, set, invalidate, cleanup_expired and the manager's        *)
(* invalidate_all and invalidate_table.  get and invalidate are one step;  *)
(* set samples the clock and later executes its INSERT OR REPLACE;         *)
(* cleanup_expired samples the clock once and runs a COUNT and a DELETE    *)
(* per table.                                                              *)
(***************************************************************************)
NoArg == "<None>"             \* an argument left at its default, None
UnknownTable == "futures_cache"
TableArgs == KnownTables \cup {UnknownTable}

NotNone(x) == x # NoArg

\* `if cache_key and table`: None and the empty string are false
Truthy(x) == x \notin {NoArg, ""}

\* the keys of _TABLE_SCHEMAS, in the order the loops visit them
TableOrder == <<"equity_cache", "options_cache", "fixed_income_cache">>

\* OptionsFetcher._build_cache_key and FixedIncomeFetcher._build_cache_key
OptionsKey == "options:AAPL:nearest"
FixedIncomeKey == "fixedincome:10Y:default:default"

CacheKeys == {BuildCacheKey(Params(symbol)) : symbol \in Symbols}

\* What each thread passes to set: a payload, a ttl_seconds and the metadata keywords
\* it gives.  The second thread passes a default_ttl_seconds of 0, which from_env
\* accepts.
RequestOf(t) ==
    IF t = "t1"
    THEN [data |-> GoodFrame, ttl_seconds |-> CacheTtl,
          columns |-> {"symbol", "start_date", "end_date", "interval"}]
    ELSE [data |-> NonPositiveFrame, ttl_seconds |-> 0, columns |-> {"symbol"}]

MetadataOf(symbol, columns) == [c \in columns |-> GetCacheMetadata(Params(symbol))[c]]

\* The cache the two threads start with: each fetcher has stored one result at time 0.
SeededStore ==
    CacheSet(
      CacheSet(
        CacheSet(EmptyStore, BuildCacheKey(Params("MSFT")), GoodFrame, cache_table,
                 CacheTtl, GetCacheMetadata(Params("MSFT")), 0),
        OptionsKey, GoodFrame, "options_cache", CacheTtl,
        [symbol |-> "AAPL", expiration |-> "nearest"], 0),
      FixedIncomeKey, GoodFrame, "fixed_income_cache", CacheTtl,
      [instrument |-> "treasury", maturity |-> "10Y"], 0)

CacheError(msg) == Exc("CacheError", msg, Exc("CacheError", msg, NoCause))

IntValue(n) == [kind |-> "int", value |-> n]
BoolValue(b) == [kind |-> "bool", value |-> b]

IdleCx ==
    [pc |-> "idle", cache_key |-> NoArg, table |-> NoArg, data |-> NoneValue,
     ttl_seconds |-> 0, metadata |-> [symbol |-> "NULL"], now |-> 0,
     total_removed |-> 0, count |-> 0, deleted |-> 0, rest |-> <<>>, auto |-> FALSE]

\* The last call that returned: its arguments and what the caller got.  Two fields
\* record what the database did and the code does not look at: swept, for
\* cleanup_expired, is the now it sampled and the rows its DELETEs removed; found, for
\* set and invalidate, tells that the statement found a row with the key.
NotSwept == [now |-> 0, deleted |-> 0]

NoReturn ==
    [op |-> "none", cache_key |-> NoArg, table |-> NoArg, confirm |-> FALSE,
     result |-> NoneValue, swept |-> NotSwept, found |-> FALSE]

Return(op, cache_key, table, confirm, result) ==
    [op |-> op, cache_key |-> cache_key, table |-> table, confirm |-> confirm,
     result |-> result, swept |-> NotSwept, found |-> FALSE]

\* WHERE expires_at <= ?
ExpiredKeys(st, table, t) == {k \in DOMAIN st[table] : st[table][k].expires_at <= t}

\* DuckDBCache.get_cache_stats
GetCacheStats(st, t) ==
    [kind |-> "stats",
     total_entries |-> Cardinality(DOMAIN st[TableOrder[1]])
                         + Cardinality(DOMAIN st[TableOrder[2]])
                         + Cardinality(DOMAIN st[TableOrder[3]]),
     tables |-> [tb \in KnownTables |->
                    [total_entries |-> Cardinality(DOMAIN st[tb]),
                     active_entries |-> ActiveEntries(st, tb, t),
                     expired_entries |-> Cardinality(ExpiredKeys(st, tb, t))]]]

\* DuckDBCache.invalidate: the store it leaves and what the caller gets.  Deleting
\* from a table that does not exist fails in the database.
CacheInvalidate(st, cache_key, table) ==
    IF Truthy(cache_key) /\ Truthy(table)
    THEN IF table \in KnownTables
         THEN [store |-> CacheInvalidateKey(st, cache_key, table), result |-> NoneValue]
         ELSE [store |-> st, result |-> CacheError({"failed to invalidate cache"})]
    ELSE IF Truthy(table)
    THEN IF table \in KnownTables
         THEN [store |-> [st EXCEPT ![table] = <<>>], result |-> NoneValue]
         ELSE [store |-> st,
               result |-> CacheError({"failed to invalidate cache", "unknown cache table"})]
    ELSE [store |-> [tb \in KnownTables |-> <<>>], result |-> NoneValue]

\* the clock of the cache's host
CacheTick ==
    /\ now < MaxCacheTime
    /\ now' = now + 1
    /\ UNCHANGED <<limVars, fetchVars, ctor, retryVars, cacheVars, px, ox>>

\* DuckDBCache.get
CacheGetCall(t, cache_key, table) ==
    /\ cx[t].pc = "idle"
    /\ ret' = Return("get", cache_key, table, FALSE,
                     CacheGet(store, cache_key, table, now))
    /\ UNCHANGED <<now, limVars, fetchVars, ctor, retryVars, cx, px, ox>>

\* DuckDBCache.set up to expires_at = now + timedelta(seconds=ttl_seconds)
CacheSetCall(t, symbol, request, table) ==
    /\ cx[t].pc = "idle"
    /\ LET cache_key == BuildCacheKey(Params(symbol)) IN
       IF table \notin KnownTables
       THEN /\ ret' = Return("set", cache_key, table, FALSE,
                             CacheError({"failed to write to cache",
                                         "unknown cache table"}))
            /\ UNCHANGED cx
       ELSE /\ cx' = [cx EXCEPT ![t] =
                        [IdleCx EXCEPT !.pc = "set_execute", !.cache_key = cache_key,
                            !.table = table, !.data = request.data,
                            !.ttl_seconds = request.ttl_seconds,
                            !.metadata = MetadataOf(symbol, request.columns),
                            !.now = now]]
            /\ UNCHANGED ret
    /\ UNCHANGED <<now, limVars, fetchVars, ctor, retryVars, px, ox>>

\* DuckDBCache.set: self.con.execute(query, params)
CacheSetExecute(t) ==
    /\ cx[t].pc = "set_execute"
    /\ LET f == cx[t] IN
       /\ store' = CacheSet(store, f.cache_key, f.data, f.table, f.ttl_seconds,
                            f.metadata, f.now)
       /\ ret' = [Return("set", f.cache_key, f.table, FALSE, NoneValue)
                    EXCEPT !.found = f.cache_key \in DOMAIN store[f.table]]
    /\ cx' = [cx EXCEPT ![t] = IdleCx]
    /\ UNCHANGED <<now, limVars, config, fx, ctor, retryVars, px, ox>>

\* DuckDBCache.invalidate
CacheInvalidateCall(t, cache_key, table) ==
    /\ cx[t].pc = "idle"
    /\ LET r == CacheInvalidate(store, cache_key, table) IN
       /\ store' = r.store
       /\ ret' = [Return("invalidate", cache_key, table, FALSE, r.result)
                    EXCEPT !.found = /\ table \in KnownTables
                                     /\ cache_key \in DOMAIN store[table]]
    /\ UNCHANGED <<now, limVars, config, fx, ctor, retryVars, cx, px, ox>>

\* DuckDBCache.cleanup_expired: total_removed = 0; now = datetime.now()
CleanupExpired(t) ==
    /\ cx[t].pc = "idle"
    /\ cx' = [cx EXCEPT ![t] = [IdleCx EXCEPT !.pc = "count", !.now = now,
                                   !.rest = TableOrder]]
    /\ UNCHANGED <<now, limVars, fetchVars, ctor, retryVars, ret, px, ox>>

\* cleanup_expired: SELECT COUNT(*) FROM table_name WHERE expires_at <= now
CleanupCount(t) ==
    /\ cx[t].pc = "count"
    /\ cx' = [cx EXCEPT ![t].pc = "delete",
                 ![t].count = Cardinality(ExpiredKeys(store, Head(cx[t].rest), cx[t].now))]
    /\ UNCHANGED <<now, limVars, fetchVars, ctor, retryVars, ret, px, ox>>

\* cleanup_expired: DELETE FROM table_name WHERE expires_at <= now, total_removed +=
\* count, and the next table or the return.  deleted is the number of rows the DELETE
\* statements removed; the code does not compute it.
CleanupDelete(t) ==
    /\ cx[t].pc = "delete"
    /\ LET f == cx[t]
           table_name == Head(f.rest)
           expired == ExpiredKeys(store, table_name, f.now)
           total == IF f.count > 0 THEN f.total_removed + f.count ELSE f.total_removed
           deleted == f.deleted + Cardinality(expired)
       IN
       /\ store' = [store EXCEPT ![table_name] =
                      [k \in DOMAIN @ \ expired |-> @[k]]]
       /\ IF Len(f.rest) > 1
          THEN /\ cx' = [cx EXCEPT ![t].pc = "count", ![t].rest = Tail(f.rest),
                            ![t].total_removed = total, ![t].deleted = deleted,
                            ![t].count = 0]
               /\ UNCHANGED ret
          ELSE /\ cx' = [cx EXCEPT ![t] = IdleCx]
               /\ ret' = [(IF f.auto
                             THEN Return("auto_cleanup_if_needed", NoArg, NoArg, FALSE,
                                         BoolValue(TRUE))
                             ELSE Return("cleanup_expired", NoArg, NoArg, FALSE,
                                         IntValue(total)))
                            EXCEPT !.swept = [now |-> f.now, deleted |-> deleted]]
    /\ UNCHANGED <<now, limVars, config, fx, ctor, retryVars, px, ox>>

\* CacheManager.get_summary: the totals over the tables of get_cache_stats
GetSummary(st, t) ==
    LET stats == GetCacheStats(st, t)
        over(i, field) == stats.tables[TableOrder[i]][field]
    IN
    [total_entries |-> stats.total_entries,
     active_entries |-> over(1, "active_entries") + over(2, "active_entries")
                          + over(3, "active_entries"),
     expired_entries |-> over(1, "expired_entries") + over(2, "expired_entries")
                           + over(3, "expired_entries")]

\* A max_expired_ratio is a fraction num / den; expired / total >= num / den is compared
\* without dividing.
DefaultRatio == [num |-> 1, den |-> 5]
RatioValues == {DefaultRatio, [num |-> 1, den |-> 2], [num |-> 1, den |-> 1]}
MinCountValues == 0..MaxMinCount \cup {min_expired_count}

\* auto_cleanup_if_needed: the test that lets the cleanup run
CleanupNeededStrict(total, expired, max_expired_ratio, min_count) ==
    IF total = 0 THEN FALSE
    ELSE /\ expired >= min_count
         /\ expired * max_expired_ratio.den > max_expired_ratio.num * total

CleanupNeeded(total, expired, max_expired_ratio, min_count) ==
    IF total = 0 THEN FALSE
    ELSE /\ expired >= min_count
         /\ expired * max_expired_ratio.den >= max_expired_ratio.num * total

\* CacheManager.auto_cleanup_if_needed up to the return False or the call of
\* cleanup_expired_entries, whose steps are those of cleanup_expired
AutoCleanupIfNeeded(t, max_expired_ratio, min_count) ==
    /\ cx[t].pc = "idle"
    /\ LET summary == GetSummary(store, now) IN
       IF CleanupNeeded(summary.total_entries, summary.expired_entries,
                        max_expired_ratio, min_count)
       THEN /\ cx' = [cx EXCEPT ![t] = [IdleCx EXCEPT !.pc = "count", !.now = now,
                                          !.rest = TableOrder, !.auto = TRUE]]
            /\ UNCHANGED ret
       ELSE /\ ret' = Return("auto_cleanup_if_needed", NoArg, NoArg, FALSE,
                             BoolValue(FALSE))
            /\ UNCHANGED cx
    /\ UNCHANGED <<now, limVars, fetchVars, ctor, retryVars, px, ox>>

\* CacheManager: `if not confirm: ... return`
ProceedsAlways(confirm) == TRUE

Proceeds(confirm) == confirm

\* CacheManager.invalidate_all
InvalidateAll(t, confirm) ==
    /\ cx[t].pc = "idle"
    /\ IF Proceeds(confirm)
       THEN LET r == CacheInvalidate(store, NoArg, NoArg) IN
               /\ store' = r.store
               /\ ret' = Return("invalidate_all", NoArg, NoArg, confirm, r.result)
       ELSE /\ ret' = Return("invalidate_all", NoArg, NoArg, confirm, NoneValue)
            /\ UNCHANGED store
    /\ UNCHANGED <<now, limVars, config, fx, ctor, retryVars, cx, px, ox>>

\* CacheManager.invalidate_table
InvalidateTable(t, table, confirm) ==
    /\ cx[t].pc = "idle"
    /\ IF Proceeds(confirm)
       THEN LET r == CacheInvalidate(store, NoArg, table) IN
               /\ store' = r.store
               /\ ret' = Return("invalidate_table", NoArg, table, confirm, r.result)
       ELSE /\ ret' = Return("invalidate_table", NoArg, table, confirm, NoneValue)
            /\ UNCHANGED store
    /\ UNCHANGED <<now, limVars, config, fx, ctor, retryVars, cx, px, ox>>

(***************************************************************************)
(* The cache keys of the three fetchers.  A call passes keyword arguments  *)
(* in some order; Python binds them by name.                               *)
(***************************************************************************)
NoCall == [fn |-> "none", args |-> <<>>, result |-> NoneValue]

Range(s) == {s[i] : i \in DOMAIN s}

\* the sequences that list the elements of S once each
Orderings(S) ==
    {s \in [1..Cardinality(S) -> S] : \A i, j \in DOMAIN s : s[i] = s[j] => i = j}

\* **kwargs: the dictionary of a sequence of <<name, value>> pairs
Bind(pairs) ==
    [name \in {pairs[i][1] : i \in DOMAIN pairs} |->
        pairs[CHOOSE i \in DOMAIN pairs : pairs[i][1] = name][2]]

\* a parameter with a default value
Given(kwargs, name, default) == IF name \in DOMAIN kwargs THEN kwargs[name] ELSE default

\* EquityFetcher._build_cache_key(symbol, start_date, end_date, interval="1d")
EquityKeyOf(kwargs) ==
    BuildCacheKey([symbol |-> kwargs.symbol, start_date |-> kwargs.start_date,
                   end_date |-> kwargs.end_date,
                   interval |-> Given(kwargs, "interval", "1d")])

\* OptionsFetcher._build_cache_key(symbol, expiration=None)
OptionsKeyOf(kwargs) ==
    LET expiration == Given(kwargs, "expiration", NoArg)
        exp_str == IF Truthy(expiration) THEN expiration ELSE "nearest"
    IN "options:" \o kwargs.symbol \o ":" \o exp_str

\* The maturities of TREASURY_SYMBOLS in the order Python's string comparison gives them.
MaturityOrder == <<"10Y", "2Y", "30Y", "3M", "5Y">>
Rank(maturity) == CHOOSE i \in DOMAIN MaturityOrder : MaturityOrder[i] = maturity

\* sorted(maturities)
RECURSIVE Insert(_, _)
Insert(x, s) ==
    IF s = <<>> THEN <<x>>
    ELSE IF Rank(x) <= Rank(Head(s)) THEN <<x>> \o s
    ELSE <<Head(s)>> \o Insert(x, Tail(s))

Unsorted(s) == s

RECURSIVE Sorted(_)
Sorted(s) == IF s = <<>> THEN <<>> ELSE Insert(Head(s), Sorted(Tail(s)))

\* ",".join(...)
RECURSIVE Join(_)
Join(s) ==
    IF s = <<>> THEN ""
    ELSE IF Len(s) = 1 THEN s[1]
    ELSE s[1] \o "," \o Join(Tail(s))

\* FixedIncomeFetcher._build_cache_key(maturities, start_date=None, end_date=None)
FixedIncomeKeyOf(kwargs) ==
    LET maturities_str == Join(Sorted(kwargs.maturities))
        start_date == Given(kwargs, "start_date", NoArg)
        end_date == Given(kwargs, "end_date", NoArg)
        start_str == IF Truthy(start_date) THEN start_date ELSE "default"
        end_str == IF Truthy(end_date) THEN end_date ELSE "default"
    IN "fixedincome:" \o maturities_str \o ":" \o start_str \o ":" \o end_str

KeyOf(fn, kwargs) ==
    CASE fn = "equity" -> EquityKeyOf(kwargs)
      [] fn = "options" -> OptionsKeyOf(kwargs)
      [] fn = "fixed_income" -> FixedIncomeKeyOf(kwargs)

\* The parameter sets the fetchers are asked about.
MaturityLists ==
    UNION {{s \in [1..n -> Range(MaturityOrder)] :
              \A i, j \in 1..n : s[i] = s[j] => i = j} : n \in 1..MaxMaturities}

EquityRequests ==
    {{<<"symbol", symbol>>, <<"start_date", "2023-01-01">>, <<"end_date", "2023-12-31">>}
        \cup interval :
        symbol \in Symbols, interval \in {{}, {<<"interval", "1d">>}, {<<"interval", "1wk">>}}}

OptionsRequests ==
    {{<<"symbol", symbol>>} \cup expiration :
        symbol \in Symbols,
        expiration \in {{}, {<<"expiration", NoArg>>}, {<<"expiration", "2024-01-19">>}}}

FixedIncomeRequests ==
    {{<<"maturities", maturities>>} \cup start_date :
        maturities \in MaturityLists,
        start_date \in {{}, {<<"start_date", NoArg>>}, {<<"start_date", "2023-01-01">>}}}

\* a fetcher's _build_cache_key(**kwargs) with the keywords in the order of pairs
BuildCacheKeyCall(fn, pairs) ==
    /\ px' = [fn |-> fn, args |-> pairs, result |-> KeyOf(fn, Bind(pairs))]
    /\ UNCHANGED <<now, limVars, fetchVars, ctor, retryVars, cacheVars, ox>>

NextKey ==
    \/ \E request \in EquityRequests : \E pairs \in Orderings(request) :
          BuildCacheKeyCall("equity", pairs)
    \/ \E request \in OptionsRequests : \E pairs \in Orderings(request) :
          BuildCacheKeyCall("options", pairs)
    \/ \E request \in FixedIncomeRequests : \E pairs \in Orderings(request) :
          BuildCacheKeyCall("fixed_income", pairs)

(***************************************************************************)
(* Option payoffs.  The arguments are IEEE 754 doubles.  A double is kept  *)
(* as hi * 2^53 + lo with hi in -1..1 and lo a small integer: below 2^53   *)
(* in magnitude every integer is a double, from 2^53 to 2^54 every second  *)
(* one is, and a sum or difference is rounded to the nearest double, a tie *)
(* to the one with the even significand.                                   *)
(***************************************************************************)
Double(hi, lo) == [hi |-> hi, lo |-> lo]
Zero == Double(0, 0)

IsDouble(x) == x.hi = 0 \/ (x.hi = 1 /\ (x.lo < 0 \/ x.lo % 2 = 0))
                        \/ (x.hi = -1 /\ (x.lo > 0 \/ x.lo % 2 = 0))

\* round to nearest, ties to even, of the magnitude 2^53 + lo
RoundUp53(lo) ==
    IF lo < 0 \/ lo % 2 = 0 THEN lo
    ELSE IF (lo + 1) % 4 = 0 THEN lo + 1 ELSE lo - 1

RoundToDouble(x) ==
    CASE x.hi = 0 -> x
      [] x.hi = 1 -> Double(1, RoundUp53(x.lo))
      [] x.hi = -1 -> Double(-1, 0 - RoundUp53(0 - x.lo))

Plus(x, y) == RoundToDouble(Double(x.hi + y.hi, x.lo + y.lo))
Minus(x, y) == RoundToDouble(Double(x.hi - y.hi, x.lo - y.lo))

Positive(x) == x.hi > 0 \/ (x.hi = 0 /\ x.lo > 0)

\* np.maximum(x, 0)
Maximum0(x) == IF Positive(x) THEN x ELSE Zero

\* payoffs.py
CallIntrinsic(stock_price, strike, premium) == Maximum0(Minus(stock_price, strike))

LongCallPayoff(stock_price, strike, premium) ==
    Minus(Maximum0(Minus(stock_price, strike)), premium)

LongPutPayoff(stock_price, strike, premium) ==
    Minus(Maximum0(Minus(strike, stock_price)), premium)

CallBreakEven(strike, premium) == Plus(strike, premium)
PutBreakEven(strike, premium) == Minus(strike, premium)

Strikes ==
    {Double(0, lo) : lo \in 0..MaxStrike}
       \cup {x \in {Double(1, lo) : lo \in (0 - MaxPremium)..MaxStrike} : IsDouble(x)}
Premiums == {Double(0, lo) : lo \in 0..MaxPremium}
Prices ==
    {Double(0, lo) : lo \in 0..(MaxStrike + MaxPremium)}
       \cup {x \in {Double(1, lo) : lo \in (0 - 2 * MaxPremium)..(MaxStrike + MaxPremium)} :
                IsDouble(x)}

LongCallPayoffCall(stock_price, strike, premium) ==
    /\ px' = [fn |-> "long_call_payoff", args |-> <<stock_price, strike, premium>>,
              result |-> LongCallPayoff(stock_price, strike, premium)]
    /\ UNCHANGED <<now, limVars, fetchVars, ctor, retryVars, cacheVars, ox>>

LongPutPayoffCall(stock_price, strike, premium) ==
    /\ px' = [fn |-> "long_put_payoff", args |-> <<stock_price, strike, premium>>,
              result |-> LongPutPayoff(stock_price, strike, premium)]
    /\ UNCHANGED <<now, limVars, fetchVars, ctor, retryVars, cacheVars, ox>>

NextPayoff ==
    \/ \E stock_price \in Prices, strike \in Strikes, premium \in Premiums :
          LongCallPayoffCall(stock_price, strike, premium)
    \/ \E stock_price \in Prices, strike \in Strikes, premium \in Premiums :
          LongPutPayoffCall(stock_price, strike, premium)

(***************************************************************************)
(* The fetch stage of get_cached_or_fetch on its own: an exception leaves  *)
(* retry_strategy.execute, `except Exception as e` catches it and          *)
(* _handle_fetch_error raises its classification.                          *)
(***************************************************************************)
MessageFragments ==
    {"404", "Not Found", "no data found", "429", "Too Many Requests", "rate limit",
     "500", "503", "timeout"}

EscapingTypes == {"FetchError", "ValidationError", "ValueError"}

Escaping ==
    {Exc(type, msg, NoCause) :
        type \in EscapingTypes,
        msg \in {s \in SUBSET MessageFragments : Cardinality(s) <= MaxFragments}}

FetchStageFails(e) ==
    /\ px' = [fn |-> "_handle_fetch_error", args |-> <<e>>, result |-> HandleFetchError(e)]
    /\ UNCHANGED <<now, limVars, fetchVars, ctor, retryVars, cacheVars, ox>>

NextClassify == \E e \in Escaping : FetchStageFails(e)

(***************************************************************************)
(* OptionsFetcher.  The provider gives the chain of one expiration: the    *)
(* one asked for or, when none is, the first of ticker.options (which is   *)
(* not empty in the model).  A chain is described by what                  *)
(* DataValidator.validate_options_data looks at.                           *)
(***************************************************************************)
options_ttl_seconds == 1800

OptionsSymbol == "AAPL"
options_table == "options_cache"

NearestExpiration == "2024-01-19"     \* ticker.options[0]
LaterExpiration == "2024-02-16"

Chain(calls, puts, cols, bad) ==
    [kind |-> "OptionChain", expiration |-> NoArg, calls_rows |-> calls,
     puts_rows |-> puts, has_columns |-> cols, bad_strike |-> bad]

GoodChain == Chain(5, 5, TRUE, FALSE)
BadStrikeChain == Chain(5, 5, TRUE, TRUE)
EmptyChain == Chain(0, 0, TRUE, FALSE)

ProviderChains == {GoodChain, BadStrikeChain, EmptyChain}

\* DataValidator.validate_options_data(calls, puts, strict); the non-positive strikes
\* of the model are in the calls.
ValidateOptionsData(d, strict) ==
    IF ~d.has_columns THEN FALSE
    ELSE IF d.calls_rows = 0 /\ strict THEN FALSE
    ELSE IF d.calls_rows # 0 /\ d.bad_strike THEN FALSE
    ELSE IF d.puts_rows = 0 /\ strict THEN FALSE
    ELSE TRUE

\* OptionsFetcher._validate_data
OptionsValidateData(d) == ValidateOptionsData(d, ~config.allow_partial_data)

\* OptionsFetcher._fetch_impl(symbol, expiration), given what yfinance did: the chain
\* of the expiration it fetched, or a FetchError wrapping whatever was raised inside,
\* its own "No options data returned" included.
OptionsFailure(out) ==
    IF out.kind = "exception" THEN out
    ELSE IF out.calls_rows = 0 /\ out.puts_rows = 0
    THEN Exc("FetchError", {"no options data returned"}, NoCause)
    ELSE NoneValue

OptionsWrapped(e) == Exc("FetchError", e.msg \cup {"failed to fetch options data"}, e)

OptionsFetchImpl(out, expiration) ==
    IF OptionsFailure(out) # NoneValue
    THEN [ok |-> FALSE, exc |-> OptionsWrapped(OptionsFailure(out))]
    ELSE [ok |-> TRUE,
          value |-> [out EXCEPT !.expiration =
                        IF Truthy(expiration) THEN expiration ELSE NearestExpiration]]

\* OptionsFetcher._get_cache_metadata(symbol, expiration) on an instance whose
\* _last_expiration attribute is `last` (Unset before the first successful fetch).
Unset == "<unset>"

OptionsMetadata(symbol, expiration, last) ==
    [symbol |-> symbol, expiration |-> IF last = Unset THEN expiration ELSE last]

\* A thread outside fetch_option_chain; the fields record its last call as those of
\* IdleFx do, with what each _fetch_impl gave (results), the expiration the call's
\* own fetch stored (fetched), and the cache.set it made (wrote).
IdleOx ==
    [pc |-> "idle", expiration |-> NoArg, use_cache |-> FALSE, cache_key |-> "",
     before |-> <<>>, t0 |-> 0, get_failed |-> FALSE, set_failed |-> FALSE,
     results |-> <<>>, fetched |-> NoArg, data |-> NoneValue,
     attempt |-> 0, wake_at |-> 0, calls |-> 0, sleeps |-> 0, acquired |-> 0,
     validated |-> 0, wrote |-> NoneValue, outcome |-> "none", value |-> NoneValue]

NoOptions == [last_expiration |-> Unset, fr |-> [t \in Threads |-> IdleOx]]

OptionsFinished(f, outcome, value) ==
    [f EXCEPT !.pc = "idle", !.outcome = outcome, !.value = value,
              !.attempt = 0, !.wake_at = 0]

\* The except clauses of fetch_option_chain around cache.get (lines 229-230) and
\* cache.set (lines 259-260): `except Exception`, logged.
OptionsSwallowsGetOnly(stage) == stage = "get"

OptionsSwallows(stage) == stage \in {"get", "set"}

(***************************************************************************)
(* fetch_option_chain(symbol, expiration, use_cache), lines 213-230: the   *)
(* symbol is a valid one; the key; the cache lookup.                       *)
(***************************************************************************)
FetchOptionChain(t, expiration, use_cache, get_fault) ==
    /\ ox.fr[t].pc = "idle"
    /\ hist.ops < MaxCalls
    /\ hist' = [hist EXCEPT !.ops = @ + 1]
    /\ LET key == OptionsKeyOf([symbol |-> OptionsSymbol, expiration |-> expiration])
           f0 == [IdleOx EXCEPT !.expiration = expiration, !.use_cache = use_cache,
                                !.cache_key = key,
                                !.get_failed = use_cache /\ get_fault,
                                !.before = store[options_table], !.t0 = now]
           cached == CacheGet(store, key, options_table, now)
       IN  IF use_cache /\ get_fault /\ ~OptionsSwallows("get")
           THEN ox' = [ox EXCEPT !.fr[t] = OptionsFinished(f0, "raised",
                          Exc("CacheError", {"failed to read from cache"}, NoCause))]
           ELSE IF use_cache /\ ~get_fault /\ cached # NoneValue
           THEN ox' = [ox EXCEPT !.fr[t] = OptionsFinished(f0, "hit", cached)]
           ELSE ox' = [ox EXCEPT !.fr[t] = [f0 EXCEPT !.pc = "rate_gate"]]
    /\ UNCHANGED <<now, bucket_size, tokens, last_update, lock, thr, fetchVars, ctor, retryVars, cacheVars, px>>

\* Line 233, `with self.rate_limiter.throttle():` - acquire(tokens=1, blocking=True).
OptionsThrottle(t) ==
    /\ ox.fr[t].pc = "rate_gate"
    /\ thr[t].pc = "idle"
    /\ thr' = [thr EXCEPT ![t] = [IdleFrame EXCEPT !.pc = "enter", !.n = 1,
                                     !.blocking = TRUE, !.timeout = None]]
    /\ ox' = [ox EXCEPT !.fr[t].pc = "throttle"]
    /\ UNCHANGED <<now, bucket_size, tokens, last_update, lock, hist, fetchVars, ctor, retryVars, cacheVars, px>>

(***************************************************************************)
(* Lines 234-240 with ExponentialBackoffRetry.execute: one attempt of the  *)
(* loop.  A _fetch_impl that succeeds stores the expiration it fetched in  *)
(* self._last_expiration (line 98) before it returns.  Within one call the *)
(* provider fails in one way.                                              *)
(***************************************************************************)
OptionsReadyToFetch(t) ==
    \/ ox.fr[t].pc = "throttle" /\ thr[t].pc = "idle" /\ thr[t].result = "True"
    \/ ox.fr[t].pc = "backoff" /\ now >= ox.fr[t].wake_at

OptionsFetchAttempt(t, out) ==
    /\ OptionsReadyToFetch(t)
    /\ OptionsFailure(out) # NoneValue =>
          \A i \in DOMAIN ox.fr[t].results :
             ox.fr[t].results[i].exc.cause = OptionsFailure(out)
    /\ LET r == OptionsFetchImpl(out, ox.fr[t].expiration)
           f == [ox.fr[t] EXCEPT !.calls = @ + 1,
                                 !.results = Append(@, r),
                                 !.acquired = IF ox.fr[t].pc = "throttle" THEN 1 ELSE @]
       IN  IF r.ok
           THEN ox' = [last_expiration |-> r.value.expiration,
                       fr |-> [ox.fr EXCEPT ![t] =
                                  [f EXCEPT !.pc = "fetched", !.data = r.value,
                                            !.fetched = r.value.expiration]]]
           ELSE IF f.attempt < config.max_retries /\ ShouldRetry(r.exc)
           THEN ox' = [ox EXCEPT !.fr[t] =
                          [f EXCEPT !.pc = "backoff", !.attempt = @ + 1,
                                    !.sleeps = @ + 1,
                                    !.wake_at = now + CalculateDelay(f.attempt)]]
           ELSE ox' = [ox EXCEPT !.fr[t] =
                          OptionsFinished(f, "raised", HandleFetchError(Reraise(r.exc)))]
    /\ thr' = [thr EXCEPT ![t] = IdleFrame]
    /\ UNCHANGED <<now, bucket_size, tokens, last_update, lock, hist, fetchVars, ctor, retryVars, cacheVars, px>>

(***************************************************************************)
(* Lines 242-262, for the chain the fetch stage returned: validation, the  *)
(* cache.set with the metadata of _get_cache_metadata, which reads         *)
(* self._last_expiration, and the return.                                  *)
(***************************************************************************)
OptionsAfterFetch(t, set_fault) ==
    /\ ox.fr[t].pc = "fetched"
    /\ LET f == ox.fr[t]
           v == IF config.validate_data THEN 1 ELSE 0
           metadata == OptionsMetadata(OptionsSymbol, f.expiration, ox.last_expiration)
       IN  IF config.validate_data /\ ~OptionsValidateData(f.data)
           THEN /\ ox' = [ox EXCEPT !.fr[t] =
                             OptionsFinished([f EXCEPT !.validated = 1], "raised",
                                 Exc("ValidationError", {"options data validation failed"}, NoCause))]
                /\ store' = store
           ELSE IF ~f.use_cache
           THEN /\ ox' = [ox EXCEPT !.fr[t] =
                             OptionsFinished([f EXCEPT !.validated = v], "fetched", f.data)]
                /\ store' = store
           ELSE IF set_fault
           THEN /\ ox' = [ox EXCEPT !.fr[t] =
                             IF OptionsSwallows("set")
                             THEN OptionsFinished([f EXCEPT !.validated = v, !.set_failed = TRUE],
                                                  "fetched", f.data)
                             ELSE OptionsFinished([f EXCEPT !.validated = v, !.set_failed = TRUE],
                                                  "raised",
                                                  Exc("CacheError", {"failed to write to cache"}, NoCause))]
                /\ store' = store
           ELSE /\ ox' = [ox EXCEPT !.fr[t] =
                             OptionsFinished(
                                 [f EXCEPT !.validated = v,
                                           !.wrote = [ttl_seconds |-> options_ttl_seconds,
                                                      metadata |-> metadata, at |-> now]],
                                 "fetched", f.data)]
                /\ store' = CacheSet(store, f.cache_key, f.data, options_table,
                                     options_ttl_seconds, metadata, now)
    /\ UNCHANGED <<now, bucket_size, tokens, last_update, lock, thr, hist, config, fx, ctor, retryVars, cacheVars, px>>

(***************************************************************************)
(* Time in the options fetcher: the clock runs between calls, and while a   *)
(* thread inside a call sleeps (time.sleep of the retry loop or of         *)
(* acquire) it runs to the first moment a sleeper wakes, wherever the      *)
(* other threads are.                                                      *)
(***************************************************************************)
OptionsSleeping(t) ==
    \/ ox.fr[t].pc = "backoff" /\ now < ox.fr[t].wake_at
    \/ ox.fr[t].pc = "throttle" /\ thr[t].pc = "sleeping" /\ now < thr[t].wake_at

OptionsWakeAt(t) == IF ox.fr[t].pc = "backoff" THEN ox.fr[t].wake_at ELSE thr[t].wake_at

OptionsElapse ==
    /\ \/ /\ \A t \in Threads : ox.fr[t].pc = "idle"
          /\ now < MaxTime
          /\ now' = now + 1
       \/ /\ \E t \in Threads :
               /\ OptionsSleeping(t)
               /\ \A u \in Threads : OptionsSleeping(u) => OptionsWakeAt(t) <= OptionsWakeAt(u)
               /\ now' = OptionsWakeAt(t)
    /\ UNCHANGED <<limVars, fetchVars, ctor, retryVars, cacheVars, px, ox>>

(***************************************************************************)
(* BaseFetcher.get_cached_or_fetch as one run, lines 167-212, over what    *)
(* its hooks do in it: what cache.get gives or that it fails, what each    *)
(* call of _fetch_impl gives, what _validate_data answers, whether         *)
(* cache.set fails.  The run ends unfinished when the fetch stage asks for *)
(* more calls of _fetch_impl than `results` holds.                         *)
(***************************************************************************)
RECURSIVE RetryExecute(_, _, _)
RetryExecute(results, attempt, retries) ==
    IF attempt + 1 > Len(results) THEN [done |-> FALSE]
    ELSE LET r == results[attempt + 1] IN
         IF r.ok THEN [done |-> TRUE, ok |-> TRUE, value |-> r.value, calls |-> attempt + 1]
         ELSE IF attempt < retries /\ ShouldRetry(r.exc)
         THEN RetryExecute(results, attempt + 1, retries)
         ELSE [done |-> TRUE, ok |-> FALSE, exc |-> Reraise(r.exc), calls |-> attempt + 1]

Outcome(outcome, value, calls, acquired, ttl) ==
    [outcome |-> outcome, value |-> value, calls |-> calls, acquired |-> acquired,
     ttl |-> ttl]

GenericRun(env) ==
    IF env.use_cache /\ env.get_fault /\ ~SwallowsCacheError("get")
    THEN Outcome("raised", Exc("CacheError", {"failed to read from cache"}, NoCause), 0, 0, None)
    ELSE IF env.use_cache /\ ~env.get_fault /\ env.cached # NoneValue
    THEN Outcome("hit", env.cached, 0, 0, None)
    ELSE LET x == RetryExecute(env.results, 0, config.max_retries) IN
         IF ~x.done THEN Outcome("unfinished", NoneValue, Len(env.results), 1, None)
         ELSE IF ~x.ok
         THEN Outcome("raised", HandleFetchError(x.exc), x.calls, 1, None)
         ELSE IF config.validate_data /\ ~env.valid
         THEN Outcome("raised", Exc("ValidationError", {"data validation failed"}, NoCause),
                      x.calls, 1, None)
         ELSE IF ~env.use_cache
         THEN Outcome("fetched", x.value, x.calls, 1, None)
         ELSE IF env.set_fault
         THEN IF SwallowsCacheError("set")
              THEN Outcome("fetched", x.value, x.calls, 1, None)
              ELSE Outcome("raised", Exc("CacheError", {"failed to write to cache"}, NoCause),
                           x.calls, 1, None)
         ELSE Outcome("fetched", x.value, x.calls, 1, config.default_ttl_seconds)

(***************************************************************************)
(* The limiter on its own: TokenBucketLimiter.__init__ leaves a full       *)
(* bucket; two threads call acquire, get_available_tokens and reset.       *)
(***************************************************************************)
DefaultConfig ==
    [max_retries |-> max_retries, validate_data |-> TRUE, allow_partial_data |-> FALSE,
     default_ttl_seconds |-> 3600]

InitLimiter ==
    /\ now = 0
    /\ bucket_size = MaxBurst
    /\ tokens = Capacity
    /\ last_update = 0
    /\ lock = "free"
    /\ thr = [t \in Threads |-> IdleFrame]
    /\ hist = [debited |-> 0, resets |-> 0, acquires |-> 0, ops |-> 0]
    /\ config = DefaultConfig
    /\ store = EmptyStore
    /\ fx = IdleFx
    /\ ctor = NoConstruction
    /\ rx = IdleRx
    /\ calc = NoCalc
    /\ cx = [t \in Threads |-> IdleCx]
    /\ ret = NoReturn
    /\ px = NoCall
    /\ ox = NoOptions

NextLimiter ==
    \/ Tick
    \/ \E t \in Threads, n \in RequestValues, b \in BOOLEAN, to \in TimeoutValues :
          AcquireCall(t, n, b, to)
    \/ \E t \in Threads : AcquireEnter(t)
    \/ \E t \in Threads : AcquireCalcWait(t)
    \/ \E t \in Threads : AcquireWake(t)
    \/ \E t \in Threads : GetAvailableTokens(t)
    \/ \E t \in Threads : Reset(t)

SpecLimiter == InitLimiter /\ [][NextLimiter]_vars

\* Two threads in acquire without a timeout, the critical section taken statement by
\* statement.
LockRequests == {1, bucket_size}

NextLock ==
    \/ Tick
    \/ \E t \in Threads, n \in LockRequests, b \in BOOLEAN : AcquireCall(t, n, b, None)
    \/ \E t \in Threads : LockAcquire(t)
    \/ \E t \in Threads : LockedRefill(t)
    \/ \E t \in Threads : LockedCheck(t)
    \/ \E t \in Threads : LockedDebit(t)
    \/ \E t \in Threads : AcquireCalcWait(t)
    \/ \E t \in Threads : AcquireWake(t)

SpecLock == InitLimiter /\ [][NextLock]_vars

(***************************************************************************)
(* One thread in blocking acquire without a timeout, and a clock that      *)
(* runs: between calls (calls begin up to MaxTime) and while the thread    *)
(* sleeps, up to the moment by which every request the bucket can hold has *)
(* been served.  The thread's own steps and the clock are fair: the        *)
(* interpreter runs the thread, and time.sleep returns.                    *)
(***************************************************************************)
Waiter == "t1"

WaitRequests == {1, bucket_size, bucket_size + 1}

WaitHorizon == MaxTime + Capacity

WaitCall(n) ==
    /\ now <= MaxTime
    /\ AcquireCall(Waiter, n, TRUE, None)

ClockRuns ==
    /\ \/ thr[Waiter].pc = "idle" /\ now < MaxTime
       \/ thr[Waiter].pc = "sleeping" /\ now < thr[Waiter].wake_at /\ now < WaitHorizon
    /\ now' = now + 1
    /\ UNCHANGED <<ctor, retryVars, cacheVars, limVars, fetchVars, px, ox>>

NextWait ==
    \/ ClockRuns
    \/ \E n \in WaitRequests : WaitCall(n)
    \/ AcquireEnter(Waiter)
    \/ AcquireCalcWait(Waiter)
    \/ AcquireWake(Waiter)

SpecWait ==
    /\ InitLimiter /\ [][NextWait]_vars
    /\ WF_vars(ClockRuns)
    /\ WF_vars(AcquireEnter(Waiter))
    /\ WF_vars(AcquireCalcWait(Waiter))
    /\ WF_vars(AcquireWake(Waiter))

(***************************************************************************)
(* The cache on its own.                                                   *)
(***************************************************************************)
InitCache ==
    /\ now = 0
    /\ bucket_size = MaxBurst
    /\ tokens = Capacity
    /\ last_update = 0
    /\ lock = "free"
    /\ thr = [t \in Threads |-> IdleFrame]
    /\ hist = [debited |-> 0, resets |-> 0, acquires |-> 0, ops |-> 0]
    /\ config = DefaultConfig
    /\ store = SeededStore
    /\ fx = IdleFx
    /\ ctor = NoConstruction
    /\ rx = IdleRx
    /\ calc = NoCalc
    /\ cx = [t \in Threads |-> IdleCx]
    /\ ret = NoReturn
    /\ px = NoCall
    /\ ox = NoOptions

NextCache ==
    \/ CacheTick
    \/ \E t \in Threads, cache_key \in CacheKeys, table \in {cache_table, UnknownTable} :
          CacheGetCall(t, cache_key, table)
    \/ \E t \in Threads, symbol \in Symbols, table \in {cache_table, UnknownTable} :
          CacheSetCall(t, symbol, RequestOf(t), table)
    \/ \E t \in Threads : CacheSetExecute(t)
    \/ \E t \in Threads, cache_key \in CacheKeys \cup {NoArg},
          table \in TableArgs \cup {NoArg} :
          CacheInvalidateCall(t, cache_key, table)

SpecCache == InitCache /\ [][NextCache]_vars

(***************************************************************************)
(* The expiry sweep: one thread runs cleanup_expired while the other one   *)
(* writes and invalidates.                                                 *)
(***************************************************************************)
Sweeper == "t1"

NextSweep ==
    \/ CacheTick
    \/ CleanupExpired(Sweeper)
    \/ CleanupCount(Sweeper)
    \/ CleanupDelete(Sweeper)
    \/ \E t \in Threads \ {Sweeper} : CacheSetCall(t, "AAPL", RequestOf(t), cache_table)
    \/ \E t \in Threads \ {Sweeper} : CacheSetExecute(t)
    \/ \E t \in Threads \ {Sweeper} : CacheInvalidateCall(t, OptionsKey, "options_cache")

SpecSweep == InitCache /\ [][NextSweep]_vars

(***************************************************************************)
(* CacheManager's destructive operations, and a thread that writes.        *)
(***************************************************************************)
NextManager ==
    \/ \E t \in Threads : CacheSetCall(t, "AAPL", RequestOf(t), cache_table)
    \/ \E t \in Threads : CacheSetExecute(t)
    \/ \E t \in Threads, confirm \in BOOLEAN : InvalidateAll(t, confirm)
    \/ \E t \in Threads, table \in TableArgs, confirm \in BOOLEAN :
          InvalidateTable(t, table, confirm)

SpecManager == InitCache /\ [][NextManager]_vars

(***************************************************************************)
(* DuckDBCache.invalidate with arguments given, left out and empty, and a  *)
(* thread that writes.                                                     *)
(***************************************************************************)
InvalidateKeys == CacheKeys \cup {NoArg, ""}
InvalidateTables == {cache_table, "options_cache", NoArg, ""}

NextInvalidate ==
    \/ \E t \in Threads : CacheSetCall(t, "AAPL", RequestOf(t), cache_table)
    \/ \E t \in Threads : CacheSetExecute(t)
    \/ \E t \in Threads, cache_key \in InvalidateKeys, table \in InvalidateTables :
          CacheInvalidateCall(t, cache_key, table)

SpecInvalidate == InitCache /\ [][NextInvalidate]_vars

(***************************************************************************)
(* CacheManager.auto_cleanup_if_needed, called by one thread while both    *)
(* write.                                                                  *)
(***************************************************************************)
NextAuto ==
    \/ CacheTick
    \/ \E t \in Threads : CacheSetCall(t, "AAPL", RequestOf(t), cache_table)
    \/ \E t \in Threads : CacheSetExecute(t)
    \/ \E max_expired_ratio \in RatioValues, min_count \in MinCountValues :
          AutoCleanupIfNeeded(Sweeper, max_expired_ratio, min_count)
    \/ CleanupCount(Sweeper)
    \/ CleanupDelete(Sweeper)

SpecAuto == InitCache /\ [][NextAuto]_vars

SpecKey == InitLimiter /\ [][NextKey]_vars

SpecPayoff == InitLimiter /\ [][NextPayoff]_vars

SpecClassify == InitLimiter /\ [][NextClassify]_vars

(***************************************************************************)
(* The fetcher: one caller of an EquityFetcher whose configuration comes   *)
(* from the environment (DataIngestionConfig.from_env), with its own       *)
(* limiter (rate_limit_burst tokens) and an empty cache.                   *)
(***************************************************************************)
ConfigValues ==
    [max_retries : {max_retries}, validate_data : BOOLEAN,
     allow_partial_data : {FALSE}, default_ttl_seconds : {0, MaxTtl}]

Init ==
    /\ now = 0
    /\ config \in ConfigValues
    /\ bucket_size = rate_limit_burst
    /\ tokens = Capacity
    /\ last_update = 0
    /\ lock = "free"
    /\ thr = [t \in {Caller} |-> IdleFrame]
    /\ hist = [debited |-> 0, resets |-> 0, acquires |-> 0, ops |-> 0]
    /\ store = EmptyStore
    /\ fx = IdleFx
    /\ ctor = NoConstruction
    /\ rx = IdleRx
    /\ calc = NoCalc
    /\ cx = [t \in Threads |-> IdleCx]
    /\ ret = NoReturn
    /\ px = NoCall
    /\ ox = NoOptions

Next ==
    \/ Elapse
    \/ \E symbol \in Symbols, use_cache \in BOOLEAN, get_fault \in BOOLEAN :
          GetCachedOrFetch(symbol, use_cache, get_fault)
    \/ Throttle
    \/ AcquireEnter(Caller)
    \/ AcquireCalcWait(Caller)
    \/ AcquireWake(Caller)
    \/ \E out \in ProviderFrames \cup ProviderErrors, set_fault \in BOOLEAN :
          FetchAttempt(out, set_fault)
    \/ \E symbol \in Symbols, fault \in BOOLEAN : InvalidateCache(symbol, fault)

Spec == Init /\ [][Next]_vars

(***************************************************************************)
(* The options fetcher on its own: one caller, every course of the cache   *)
(* and of the provider; and two callers of one OptionsFetcher, with a      *)
(* retry strategy of one retry.                                            *)
(***************************************************************************)
ExpirationArgs == {NoArg, LaterExpiration}

\* the configurations with a default_ttl_seconds above zero
OptionsConfigs == {c \in ConfigValues : c.default_ttl_seconds = MaxTtl}

InitOptions ==
    /\ now = 0
    /\ config \in OptionsConfigs
    /\ bucket_size = rate_limit_burst
    /\ tokens = Capacity
    /\ last_update = 0
    /\ lock = "free"
    /\ thr = [t \in Threads |-> IdleFrame]
    /\ hist = [debited |-> 0, resets |-> 0, acquires |-> 0, ops |-> 0]
    /\ store = EmptyStore
    /\ fx = IdleFx
    /\ ctor = NoConstruction
    /\ rx = IdleRx
    /\ calc = NoCalc
    /\ cx = [t \in Threads |-> IdleCx]
    /\ ret = NoReturn
    /\ px = NoCall
    /\ ox = NoOptions

NextOptions ==
    \/ OptionsElapse
    \/ \E expiration \in ExpirationArgs, use_cache \in BOOLEAN, get_fault \in BOOLEAN :
          FetchOptionChain("t1", expiration, use_cache, get_fault)
    \/ OptionsThrottle("t1")
    \/ AcquireEnter("t1")
    \/ AcquireCalcWait("t1")
    \/ AcquireWake("t1")
    \/ \E out \in ProviderChains \cup ProviderErrors : OptionsFetchAttempt("t1", out)
    \/ \E set_fault \in BOOLEAN : OptionsAfterFetch("t1", set_fault)

SpecOptions == InitOptions /\ [][NextOptions]_vars

\* Two threads call fetch_option_chain on one OptionsFetcher whose retry strategy
\* retries once; the provider returns a good chain or is unavailable.
RaceConfig == [DefaultConfig EXCEPT !.max_retries = 1]

RaceOutcomes == {GoodChain, Exc("Exception", {"503", "unavailable"}, NoCause)}

InitRace ==
    /\ now = 0
    /\ config = RaceConfig
    /\ bucket_size = rate_limit_burst
    /\ tokens = Capacity
    /\ last_update = 0
    /\ lock = "free"
    /\ thr = [t \in Threads |-> IdleFrame]
    /\ hist = [debited |-> 0, resets |-> 0, acquires |-> 0, ops |-> 0]
    /\ store = EmptyStore
    /\ fx = IdleFx
    /\ ctor = NoConstruction
    /\ rx = IdleRx
    /\ calc = NoCalc
    /\ cx = [t \in Threads |-> IdleCx]
    /\ ret = NoReturn
    /\ px = NoCall
    /\ ox = NoOptions

NextRace ==
    \/ OptionsElapse
    \/ \E t \in Threads, expiration \in ExpirationArgs, use_cache \in BOOLEAN :
          FetchOptionChain(t, expiration, use_cache, FALSE)
    \/ \E t \in Threads : OptionsThrottle(t)
    \/ \E t \in Threads : AcquireEnter(t)
    \/ \E t \in Threads : AcquireCalcWait(t)
    \/ \E t \in Threads : AcquireWake(t)
    \/ \E t \in Threads, out \in RaceOutcomes : OptionsFetchAttempt(t, out)
    \/ \E t \in Threads : OptionsAfterFetch(t, FALSE)

SpecRace == InitRace /\ [][NextRace]_vars

(***************************************************************************)
(* Construction on its own: limiters and retry strategies are built from   *)
(* arguments on both sides of every threshold.                             *)
(***************************************************************************)
NextCtor ==
    \/ \E tps \in ParamValues, size \in ParamValues : ConstructLimiter(tps, size)
    \/ \E retries \in ParamValues, base_delay \in ParamValues, max_delay \in ParamValues,
          base \in ParamValues : ConstructRetry(retries, base_delay, max_delay, base)

SpecCtor == InitLimiter /\ [][NextCtor]_vars

(***************************************************************************)
(* The retry strategy on its own: execute is called again and again, with  *)
(* every max_retries of RetryArgs and every course of func.  func returns  *)
(* or raises, and time.sleep returns: the steps inside execute are fair.   *)
(***************************************************************************)
NextRetry ==
    \/ \E retries \in RetryArgs : Execute(retries)
    \/ \E out \in {GoodFrame} \cup RetryErrors : RetryAttempt(out)
    \/ RetrySleep

NextDelay ==
    \E base_delay \in DelayValues, max_delay \in DelayValues, base \in BaseValues,
       attempt \in AttemptValues : CalculateDelayCall(base_delay, max_delay, base, attempt)

SpecDelay == InitLimiter /\ [][NextDelay]_vars

SpecRetry ==
    /\ InitLimiter /\ [][NextRetry]_vars
    /\ WF_vars(\E out \in {GoodFrame} \cup RetryErrors : RetryAttempt(out))
    /\ WF_vars(RetrySleep)

(***************************************************************************)
(* Claims about the fetcher, checked under Spec.                           *)
(***************************************************************************)
Done == fx.pc = "idle" /\ fx.op = "get_cached_or_fetch"

Err429 == Exc("Exception", {"429", "too many requests"}, NoCause)
Err404 == Exc("Exception", {"404", "not found"}, NoCause)

Raised(type) == fx.outcome = "raised" /\ fx.value.type = type

\* The entry of the call's key is live in table tb at time t.
LiveIn(tb, t) == fx.cache_key \in DOMAIN tb /\ tb[fx.cache_key].expires_at > t

\* The store as it was when the call began.
StoreBefore == [store EXCEPT ![cache_table] = fx.before]

\* C1: no caching of invalid data.  With validation enabled (and partial data not
\* allowed), a call whose fetched data has non-positive prices, which the equity
\* validator rejects, raises ValidationError and performs no cache.set: the cache is as
\* it was before the call, and no entry of the table ever holds such data, so that no
\* later cache.get returns it.
NoCachingOfInvalidData ==
    config.validate_data =>
        /\ \A k \in DOMAIN store[cache_table] :
              ~Unpickle(store[cache_table][k].data).nonpositive
        /\ (Done /\ fx.data # NoneValue /\ fx.data.nonpositive) =>
              /\ Raised("ValidationError")
              /\ fx.validated = 1
              /\ fx.sets = 0
              /\ store = StoreBefore
              /\ CacheGet(store, fx.cache_key, cache_table, now) # fx.data

\* A call with use_cache ended with ValidationError after the provider had failed once,
\* while the key's earlier entry is still in the table.
NoCachingOfInvalidDataWitness ==
    /\ Done /\ Raised("ValidationError")
    /\ fx.use_cache /\ fx.calls = 2
    /\ fx.cache_key \in DOMAIN store[cache_table]

\* C2: a cache hit short-circuits the call.  A call returns from the cache exactly when
\* use_cache is true and cache.get finds a live entry for the derived key; it then
\* returns that entry's payload at once, with zero provider calls, no token debited, no
\* validation, no backoff sleep and no cache write.
CacheHitShortCircuits ==
    Done =>
        /\ fx.outcome = "hit" <=>
              (fx.use_cache /\ ~fx.get_failed /\ LiveIn(fx.before, fx.t0))
        /\ fx.outcome = "hit" =>
              /\ fx.value = Unpickle(fx.before[fx.cache_key].data)
              /\ fx.at = fx.t0
              /\ fx.calls = 0 /\ fx.acquired = 0 /\ fx.validated = 0
              /\ fx.sleeps = 0 /\ fx.sets = 0
              /\ store = StoreBefore

\* A hit on an entry written by an earlier call, some time after it was written and
\* before it expires.
CacheHitShortCircuitsWitness ==
    /\ Done /\ fx.outcome = "hit"
    /\ fx.t0 > fx.before[fx.cache_key].created_at
    /\ fx.value = GoodFrame

\* C3: write-through on a successful miss.  After a call with use_cache took the miss
\* path, the provider returned data that passed validation and the cache write
\* succeeded with TTL > 0, the table holds one entry for the key, created at the return
\* and live; every other entry is as before; active_entries, counted at the return, is
\* one more than before when the key had no live entry; and cache.get for the key at
\* that time returns the data returned to the caller, so that an immediate repeat call
\* is a hit (C2), which makes no provider call.
WriteThrough ==
    (Done /\ fx.outcome = "fetched" /\ fx.use_cache /\ ~fx.set_failed
          /\ config.default_ttl_seconds > 0) =>
        /\ fx.sets = 1
        /\ LiveIn(store[cache_table], fx.at)
        /\ store[cache_table][fx.cache_key].created_at = fx.at
        /\ \A k \in DOMAIN fx.before \ {fx.cache_key} :
              k \in DOMAIN store[cache_table] /\ store[cache_table][k] = fx.before[k]
        /\ DOMAIN store[cache_table] = DOMAIN fx.before \cup {fx.cache_key}
        /\ ActiveEntries(store, cache_table, fx.at) =
              ActiveEntries(StoreBefore, cache_table, fx.at)
                + (IF LiveIn(fx.before, fx.at) THEN 0 ELSE 1)
        /\ CacheGet(store, fx.cache_key, cache_table, fx.at) = fx.value
        /\ fx.value # NoneValue
        /\ \A t \in KnownTables \ {cache_table} : store[t] = StoreBefore[t]

\* The write-through added a second live entry to the table.
WriteThroughWitness ==
    /\ Done /\ fx.outcome = "fetched" /\ fx.use_cache /\ fx.sets = 1
    /\ config.default_ttl_seconds > 0
    /\ fx.cache_key \notin DOMAIN fx.before
    /\ ActiveEntries(store, cache_table, fx.at) = 2

\* C4: retry exhaustion versus recovery.  When the provider fails with '429 too many
\* requests' k times in a row and then succeeds, the call goes on retrying while
\* k <= max_retries: it makes k + 1 provider calls, sleeping before each retry, and
\* returns the result, caching it when use_cache is set and the write succeeds; when
\* the provider fails max_retries + 1 times the call raises RateLimitError after exactly
\* max_retries + 1 provider calls, with no cache write.
RetryExhaustionVersusRecovery ==
    fx.mode = Err429 =>
        /\ fx.calls <= config.max_retries + 1
        /\ fx.pc = "backoff" => fx.attempt = fx.calls /\ fx.sleeps = fx.calls
        /\ (Done /\ fx.outcome = "fetched") =>
              /\ fx.sleeps = fx.calls - 1
              /\ fx.value = fx.data
              /\ (fx.use_cache /\ ~fx.set_failed) =>
                    /\ fx.sets = 1
                    /\ Unpickle(store[cache_table][fx.cache_key].data) = fx.value
        /\ (Done /\ fx.outcome = "raised" /\ fx.data = NoneValue) =>
              /\ fx.value.type = "RateLimitError"
              /\ RootCause(fx.value) = Err429
              /\ fx.calls = config.max_retries + 1
              /\ fx.sleeps = config.max_retries
              /\ fx.sets = 0
              /\ store = StoreBefore

\* Three 429 failures, then success on the last attempt max_retries = 3 allows, cached.
RetryExhaustionVersusRecoveryWitness ==
    /\ Done /\ fx.mode = Err429 /\ fx.outcome = "fetched"
    /\ fx.calls = config.max_retries + 1
    /\ fx.sets = 1

\* C5: a not-found failure is surfaced immediately.  A call in which the provider
\* signalled '404 not found' has raised SymbolNotFoundError after exactly one provider
\* call, with no retry and no backoff sleep.
NotFoundSurfacedImmediately ==
    (Done /\ fx.mode = Err404) =>
        /\ Raised("SymbolNotFoundError")
        /\ fx.calls = 1
        /\ fx.sleeps = 0

\* C6: cache-fault policy.  A CacheError of cache.get is a miss, and the call goes on to
\* the rate limiter and the provider; a CacheError of cache.set after a successful,
\* validated fetch is swallowed, and the fetched data is returned; a CacheError of
\* cache.invalidate in invalidate_cache reaches the caller.
CacheFaultPolicy ==
    /\ (fx.op = "get_cached_or_fetch" /\ fx.get_failed) =>
          /\ fx.outcome # "hit"
          /\ fx.pc \in {"rate_gate", "throttle", "backoff", "idle"}
          /\ fx.pc = "idle" => fx.acquired = 1 /\ fx.calls >= 1
    /\ (Done /\ fx.set_failed) =>
          /\ fx.outcome = "fetched"
          /\ fx.value = fx.data /\ fx.value.kind = "DataFrame"
          /\ config.validate_data => fx.validated = 1
          /\ fx.sets = 0
          /\ store = StoreBefore
    /\ (fx.op = "invalidate_cache" /\ fx.invalidate_failed) =>
          /\ Raised("CacheError")
          /\ store = StoreBefore

\* invalidate_cache raised CacheError, after a call in which cache.get and cache.set
\* had both failed: the entry it was to delete is not there, and none was written.
CacheFaultPolicyWitness ==
    /\ fx.op = "invalidate_cache" /\ fx.invalidate_failed /\ Raised("CacheError")
    /\ hist.ops = 2
    /\ store = EmptyStore
    /\ hist.debited = 1

(***************************************************************************)
(* Claims about the rate limiter, checked under SpecLimiter.               *)
(***************************************************************************)

\* C7: token-budget invariant.  In every reachable state of the limiter, under any
\* interleaving of acquire (blocking or not), get_available_tokens and reset with a
\* monotone clock, 0 <= tokens <= bucket_size.
TokenBudgetInvariant == 0 <= tokens /\ tokens <= Capacity

\* The budget is at its lower end after concurrent acquisitions and a reset, with a
\* blocking caller asleep outside the lock.
TokenBudgetWitness ==
    /\ tokens = 0
    /\ hist.resets > 0
    /\ hist.debited >= bucket_size
    /\ \E t \in Threads : thr[t].pc = "sleeping"

AcquireOutcomeContract ==
    \A t \in Threads :
        thr[t].result \in {"none", "True", "False", "TimeoutError", "ValueError_tokens"}

(***************************************************************************)
(* Claims about construction, checked under SpecCtor.                      *)
(***************************************************************************)
InvalidLimiterArgs == ctor.cls = "TokenBucketLimiter" /\ (ctor.args[1] <= 0 \/ ctor.args[2] <= 0)

InvalidRetryArgs ==
    /\ ctor.cls = "ExponentialBackoffRetry"
    /\ (ctor.args[1] < 0 \/ ctor.args[2] <= 0 \/ ctor.args[3] <= 0 \/ ctor.args[4] <= 1)

\* C10: invalid constructor parameters fail at once with ConfigurationError and no
\* instance is created: a limiter with tokens_per_second <= 0 or bucket_size <= 0, a
\* retry strategy with max_retries < 0, base_delay <= 0, max_delay <= 0 or
\* exponential_base <= 1.
InvalidParametersRaiseConfigurationError ==
    (InvalidLimiterArgs \/ InvalidRetryArgs) =>
        /\ ctor.result.kind = "exception"
        /\ IsInstance(ctor.result, "ConfigurationError")

(***************************************************************************)
(* Claims about the retry strategy, checked under SpecRetry.               *)
(***************************************************************************)
RetryDone == rx.pc = "done"

\* The classification the retry strategy is to make of an exception.
Retryable(e) ==
    IF e.type \in {"ValidationError", "SymbolNotFoundError"} THEN FALSE
    ELSE IF e.type \in {"RateLimitError", "FetchError"} THEN TRUE
    ELSE e.msg \cap {"timeout", "connection", "network", "temporary", "unavailable",
                     "500", "502", "503", "504"} # {}

\* C11: retry attempt bound.  execute calls the operation at most max_retries + 1 times
\* and always terminates; a successful attempt ends it with that attempt's result and
\* no further call; after failed attempt i it sleeps calculate_delay(i) =
\* min(1 * 2^i, 60), and only for i < max_retries; when every attempt fails with a
\* retryable error it makes exactly max_retries + 1 attempts and raises the last
\* exception itself, unchanged and unwrapped.
RetryAttemptBound ==
    /\ [](/\ rx.calls <= rx.max_retries + 1
          /\ Len(rx.sleeps) = rx.attempt
          /\ rx.attempt <= rx.max_retries
          /\ \A i \in 1..Len(rx.sleeps) :
                rx.sleeps[i] = (IF 2^(i - 1) <= 60 THEN 2^(i - 1) ELSE 60)
          /\ (RetryDone /\ rx.outcome = "returned") =>
                /\ rx.value = GoodFrame
                /\ rx.calls = Len(rx.errors) + 1
                /\ Len(rx.sleeps) = Len(rx.errors)
          /\ (RetryDone /\ rx.outcome = "raised") =>
                /\ rx.calls = Len(rx.errors)
                /\ rx.value = rx.errors[Len(rx.errors)]
                /\ Len(rx.sleeps) = rx.calls - 1
                /\ (\A i \in 1..Len(rx.errors) : Retryable(rx.errors[i])) =>
                      /\ rx.calls = rx.max_retries + 1
                      /\ Len(rx.sleeps) = rx.max_retries)
    /\ (rx.pc \in {"attempt", "sleep"}) ~> RetryDone

\* Every attempt max_retries = MaxRetriesArg allows failed with a retryable error, of
\* more than one kind, and the last one was raised.
RetryAttemptBoundWitness ==
    /\ RetryDone /\ rx.outcome = "raised"
    /\ rx.max_retries = MaxRetriesArg
    /\ rx.calls = MaxRetriesArg + 1
    /\ \A i \in 1..Len(rx.errors) : Retryable(rx.errors[i])
    /\ rx.errors[1] # rx.value

DelayOf(i) ==
    CalculateDelayOf(calc.base_delay, calc.max_delay, calc.exponential_base, i)

\* C13: backoff delay.  For every attempt index i >= 0, calculate_delay(i) is the
\* number min(base_delay * exponential_base^i, max_delay): it never exceeds max_delay,
\* it is non-decreasing in i, and with base_delay = 1, exponential_base = 2,
\* max_delay = 60 it is 1, 2, 4, 8, 16, 32 for i = 0..5 and 60 for i = 6.
BackoffDelayLaw ==
    calc.result # NoneValue =>
        /\ calc.result.kind = "float"
        /\ calc.result.value <= calc.max_delay
        /\ calc.attempt <= MaxAttempt =>
              calc.result.value =
                  Min(calc.base_delay * calc.exponential_base ^ calc.attempt,
                      calc.max_delay)
        /\ DelayOf(calc.attempt + 1).kind = "float"
        /\ calc.result.value <= DelayOf(calc.attempt + 1).value
        /\ (calc.base_delay = 1 /\ calc.exponential_base = 2 /\ calc.max_delay = 60) =>
              /\ \A i \in 0..5 : DelayOf(i) = Float(2 ^ i)
              /\ DelayOf(6) = Float(60)

(***************************************************************************)
(* The cache.                                                              *)
(***************************************************************************)
Times == 0..(MaxCacheTime + CacheTtl)

\* C14: get(key, table) returns the stored payload exactly when an entry for
\* (table, key) exists with expires_at > now, strictly, and otherwise absent; it
\* changes no entry.  The entry a set with ttl_seconds = T > 0 writes is returned by a
\* get at the time of the set and is absent to a get from T later on, and while it is
\* stored the statistics count it as expired from then on.
TTLVisibility ==
    [][/\ \A t \in Threads, k \in CacheKeys :
            CacheGetCall(t, k, cache_table) =>
               /\ ret'.result =
                     IF k \in DOMAIN store[cache_table]
                           /\ store[cache_table][k].expires_at > now
                     THEN store[cache_table][k].data[2]
                     ELSE NoneValue
               /\ store' = store
       /\ \A t \in Threads :
            (CacheSetExecute(t) /\ cx[t].ttl_seconds > 0) =>
               LET f == cx[t] IN
               \A at \in Times :
                  /\ at = f.now => CacheGet(store', f.cache_key, f.table, at) = f.data
                  /\ at >= f.now + f.ttl_seconds =>
                        /\ CacheGet(store', f.cache_key, f.table, at) = NoneValue
                        /\ f.cache_key \in ExpiredKeys(store', f.table, at)
                        /\ GetCacheStats(store', at).tables[f.table].expired_entries
                              = Cardinality({k \in DOMAIN store'[f.table] :
                                               store'[f.table][k].expires_at <= at})]_vars

\* a get of an entry that was written with a positive ttl, has expired and is still stored
TTLVisibilityWitness ==
    /\ ret.op = "get"
    /\ ret.table = cache_table
    /\ ret.result = NoneValue
    /\ ret.cache_key \in DOMAIN store[cache_table]
    /\ LET row == store[cache_table][ret.cache_key] IN
       /\ row.expires_at > row.created_at
       /\ row.expires_at = now

\* the columns of an equity_cache row for the keywords a set was given
EquityColumns(metadata) ==
    [c \in {"symbol", "start_date", "end_date", "interval"} |->
        IF c \in DOMAIN metadata THEN metadata[c] ELSE "NULL"]

\* C15: a table holds at most one entry per cache_key.  The set that executes leaves
\* exactly one entry for its key, whose payload, metadata, created_at and expires_at
\* are all its own whatever entry the key had and whichever set sampled the clock
\* first; no other entry changes, and get_cache_stats counts the key once.
UpsertReplaces ==
    [][\A t \in Threads :
         CacheSetExecute(t) =>
            LET f == cx[t]
                before == GetCacheStats(store, now)
                after == GetCacheStats(store', now)
                fresh == IF f.cache_key \in DOMAIN store[f.table] THEN 0 ELSE 1
            IN
            /\ DOMAIN store'[f.table] = DOMAIN store[f.table] \cup {f.cache_key}
            /\ store'[f.table][f.cache_key] =
                  [data |-> <<"pickle", f.data>>, created_at |-> f.now,
                   expires_at |-> f.now + f.ttl_seconds,
                   meta |-> EquityColumns(f.metadata)]
            /\ \A k \in DOMAIN store[f.table] \ {f.cache_key} :
                  store'[f.table][k] = store[f.table][k]
            /\ \A tb \in KnownTables \ {f.table} : store'[tb] = store[tb]
            /\ after.tables[f.table].total_entries
                  = before.tables[f.table].total_entries + fresh
            /\ after.total_entries = before.total_entries + fresh
            /\ after.tables[f.table].total_entries = Cardinality(DOMAIN store'[f.table])]_vars

\* a set that had sampled its clock earlier has replaced the entry its key had, and the
\* table holds one entry for each of the two keys
UpsertReplacesWitness ==
    /\ ret.op = "set"
    /\ ret.found
    /\ ret.table = cache_table
    /\ ret.cache_key = BuildCacheKey(Params("AAPL"))
    /\ LET row == store[cache_table][ret.cache_key] IN
       /\ row.data = Pickle(GoodFrame)
       /\ row.created_at < now
       /\ row.meta.interval # "NULL"
    /\ GetCacheStats(store, now).tables[cache_table].total_entries = 2

\* C16: every stored entry has expires_at > created_at, whatever ttl_seconds set was
\* given, a default_ttl_seconds from the environment included.
CacheEntryInvariant ==
    \A tb \in KnownTables : \A k \in DOMAIN store[tb] :
       store[tb][k].expires_at > store[tb][k].created_at

\* C17: invalidate(key, table) removes the entry for (table, key) if there is one and
\* leaves every other entry of every table as it was; invalidate(table=T) removes all
\* entries of T and leaves the other tables as they were; invalidate() leaves the three
\* known tables empty.
InvalidationScope ==
    [][\A t \in Threads :
         /\ \A k \in CacheKeys, T \in KnownTables :
               CacheInvalidateCall(t, k, T) =>
                  /\ DOMAIN store'[T] = DOMAIN store[T] \ {k}
                  /\ \A x \in DOMAIN store'[T] : store'[T][x] = store[T][x]
                  /\ \A tb \in KnownTables \ {T} : store'[tb] = store[tb]
                  /\ ret'.result = NoneValue
         /\ \A T \in KnownTables :
               CacheInvalidateCall(t, NoArg, T) =>
                  /\ DOMAIN store'[T] = {}
                  /\ \A tb \in KnownTables \ {T} : store'[tb] = store[tb]
                  /\ ret'.result = NoneValue
         /\ CacheInvalidateCall(t, NoArg, NoArg) =>
               /\ \A tb \in KnownTables : DOMAIN store'[tb] = {}
               /\ ret'.result = NoneValue]_vars

\* invalidate(key, table) has removed an entry of a table that holds another one, and
\* the other two tables hold theirs
InvalidationScopeWitness ==
    /\ ret.op = "invalidate"
    /\ ret.found
    /\ ret.table = cache_table
    /\ ret.cache_key \in CacheKeys \ DOMAIN store[cache_table]
    /\ DOMAIN store[cache_table] # {}
    /\ \A tb \in KnownTables \ {cache_table} : DOMAIN store[tb] # {}

\* C18: the integer cleanup_expired returns is the number of entries its DELETE
\* statements removed over all tables, also when another thread's set or invalidate
\* runs between a COUNT and the DELETE that follows it.
ExpirySweepCount ==
    ret.op = "cleanup_expired" => ret.result.value = ret.swept.deleted

\* C19: set, get and invalidate called with a table outside the three known ones fail
\* with a cache or configuration error; none of them returns as if it had succeeded
\* or missed.
UnknownTableIsError ==
    (ret.op \in {"get", "set", "invalidate"} /\ ret.table \notin KnownTables \cup {NoArg})
       => /\ ret.result.kind = "exception"
          /\ ret.result.type \in {"CacheError", "ConfigurationError"}

\* C20: invalidate_all and invalidate_table called with confirm false delete nothing
\* and leave the cache as it was; with confirm true invalidate_all empties all tables
\* and invalidate_table empties the named table and no other.
ConfirmGuard ==
    [][\A t \in Threads :
         /\ InvalidateAll(t, FALSE) => store' = store
         /\ \A T \in TableArgs : InvalidateTable(t, T, FALSE) => store' = store
         /\ InvalidateAll(t, TRUE) => \A tb \in KnownTables : DOMAIN store'[tb] = {}
         /\ \A T \in KnownTables :
               InvalidateTable(t, T, TRUE) =>
                  /\ DOMAIN store'[T] = {}
                  /\ \A tb \in KnownTables \ {T} : store'[tb] = store[tb]]_vars

\* invalidate_table without confirm has left its table with its entries, after a
\* confirmed one had emptied another table and no more
ConfirmGuardWitness ==
    /\ ret.op = "invalidate_table"
    /\ ~ret.confirm
    /\ ret.table = cache_table
    /\ DOMAIN store[cache_table] # {}
    /\ DOMAIN store["options_cache"] = {}
    /\ DOMAIN store["fixed_income_cache"] # {}

IdempotentCacheKey ==
    px.fn \in {"equity", "options", "fixed_income"} =>
       LET kwargs == Bind(px.args) IN
       /\ \A pairs \in Orderings(Range(px.args)) : KeyOf(px.fn, Bind(pairs)) = px.result
       /\ (px.fn = "equity" /\ "interval" \notin DOMAIN kwargs) =>
             KeyOf("equity", Bind(Append(px.args, <<"interval", "1d">>))) = px.result
       /\ px.fn = "fixed_income" =>
             \A maturities \in Orderings(Range(kwargs.maturities)) :
                KeyOf("fixed_income", [kwargs EXCEPT !.maturities = maturities]) = px.result

\* a key built for three maturities given in descending order
IdempotentCacheKeyWitness ==
    /\ px.fn = "fixed_income"
    /\ Bind(px.args).maturities = <<"5Y", "30Y", "10Y">>
    /\ px.result = "fixedincome:10Y,30Y,5Y:default:default"

(***************************************************************************)
(* Payoffs.                                                                *)
(***************************************************************************)
AtCallBreakEven ==
    px.fn = "long_call_payoff" /\ px.args[1] = CallBreakEven(px.args[2], px.args[3])

AtPutBreakEven ==
    px.fn = "long_put_payoff" /\ px.args[1] = PutBreakEven(px.args[2], px.args[3])

\* the break-even of the call is strike + premium and that of the put strike - premium
\* with no rounding
ExactBreakEven ==
    LET strike == px.args[2]
        premium == px.args[3]
    IN IF px.fn = "long_call_payoff"
       THEN IsDouble(Double(strike.hi + premium.hi, strike.lo + premium.lo))
       ELSE IsDouble(Double(strike.hi - premium.hi, strike.lo - premium.lo))

\* C23 as stated: for every strike and every premium >= 0 the long call payoff at
\* strike + premium and the long put payoff at strike - premium are 0.
BreakEvenPayoffIsZero ==
    (AtCallBreakEven \/ AtPutBreakEven) => px.result = Zero

\* C23: for every strike and premium >= 0 whose break-even strike + premium (strike -
\* premium for the put) is a double, so that computing it does not round, the long
\* call payoff and the long put payoff at the break-even are 0.
ExactBreakEvenPayoffIsZero ==
    ((AtCallBreakEven \/ AtPutBreakEven) /\ ExactBreakEven) => px.result = Zero

\* the call payoff at the break-even of a strike above 2^53 that an odd premium leaves
\* on a double
ExactBreakEvenPayoffIsZeroWitness ==
    /\ AtCallBreakEven
    /\ ExactBreakEven
    /\ px.args[2] = Double(1, 0 - 1)
    /\ px.args[3] = Double(0, 1)
    /\ px.result = Zero

(***************************************************************************)
(* Terminal fetch errors.                                                  *)
(***************************************************************************)
\* C24: every exception that leaves the retry-wrapped fetch is converted by its
\* lower-cased message into exactly one of SymbolNotFoundError (404, not found, no
\* data found; tested first), RateLimitError (429, rate limit, too many requests;
\* second), the "Server error" FetchError (500, 502, 503, 504; third) or the generic
\* FetchError, and the result is chained to the original.
FetchErrorClassification ==
    px.fn = "_handle_fetch_error" =>
       LET e == px.args[1]
           r == px.result
           has(S) == \E s \in e.msg : LowerOf(s) \in S
           notFound == has({"404", "not found", "no data found"})
           rateLimit == has({"429", "rate limit", "too many requests"})
           server == has({"500", "502", "503", "504"})
       IN
       /\ r.kind = "exception"
       /\ r.cause = e
       /\ r.type \in {"SymbolNotFoundError", "RateLimitError", "FetchError"}
       /\ r.type = "SymbolNotFoundError" <=> notFound
       /\ r.type = "RateLimitError" <=> (~notFound /\ rateLimit)
       /\ "server error" \in r.msg <=> (~notFound /\ ~rateLimit /\ server)
       /\ "failed to fetch data" \in r.msg <=> (~notFound /\ ~rateLimit /\ ~server)

\* a message that names both a rate limit and a missing symbol
FetchErrorClassificationWitness ==
    /\ px.fn = "_handle_fetch_error"
    /\ px.args[1].msg = {"Too Many Requests", "Not Found"}
    /\ px.args[1].type = "ValueError"
    /\ px.result.type = "SymbolNotFoundError"

(***************************************************************************)
(* The lock of the rate limiter.                                           *)
(***************************************************************************)
\* C25: refill, check and debit run as one critical section under the limiter's
\* lock, so that no two threads are between refill and debit at once and no token is
\* granted twice (the balance never goes below zero and the tokens debited never
\* exceed the full bucket plus what the elapsed time refilled); a thread that sleeps
\* while it waits for tokens does not hold the lock.
InCriticalSection(t) == thr[t].pc \in {"locked", "refilled", "debit", "calc_wait"}

LockDiscipline ==
    /\ \A t \in Threads : InCriticalSection(t) => lock = t
    /\ \A t \in Threads : thr[t].pc = "sleeping" => lock # t
    /\ (\A t \in Threads : ~InCriticalSection(t)) => lock = "free"
    /\ tokens >= 0
    /\ Units(hist.debited) <= Capacity + now

\* one thread sleeps while the other has passed the check and is about to debit
LockDisciplineWitness ==
    /\ thr["t1"].pc = "sleeping"
    /\ thr["t2"].pc = "debit"
    /\ lock = "t2"

(***************************************************************************)
(* The options path against the generic path.                              *)
(***************************************************************************)
OptionsDone(t) == ox.fr[t].pc = "idle" /\ ox.fr[t].outcome # "none"

\* what a caller can tell of a result: the value returned, or the class of the
\* exception and what it is chained to
Seen(v) == IF v.kind = "exception" THEN [type |-> v.type, cause |-> v.cause] ELSE v

\* the generic run over what the hooks did in the call of thread t
GenericOf(t) ==
    LET f == ox.fr[t] IN
    GenericRun([use_cache |-> f.use_cache, get_fault |-> f.get_failed,
                cached |-> CacheGet([EmptyStore EXCEPT ![options_table] = f.before],
                                    f.cache_key, options_table, f.t0),
                results |-> f.results,
                valid |-> IF f.data = NoneValue THEN TRUE ELSE OptionsValidateData(f.data),
                set_fault |-> f.set_failed])

SameCourse(t) ==
    LET f == ox.fr[t]
        g == GenericOf(t)
    IN
    /\ f.outcome = g.outcome
    /\ Seen(f.value) = Seen(g.value)
    /\ f.calls = g.calls
    /\ f.acquired = g.acquired
    /\ f.wrote # NoneValue <=> g.ttl # None

TokenTaken == thr[Caller].pc = "idle" /\ thr[Caller].result = "True"

OneTokenPerFetch ==
    /\ [](fx.calls <= (config.max_retries + 1) * fx.acquired)
    /\ [](fx.op = "get_cached_or_fetch" /\ fx.outcome = "hit" => fx.calls = 0)
    /\ [][ /\ hist'.debited # hist.debited =>
                /\ fx.pc = "throttle" /\ fx.calls = 0 /\ ~TokenTaken
                /\ hist'.debited = hist.debited + 1
                /\ TokenTaken'
                /\ fx' = fx
           /\ fx'.calls > fx.calls /\ fx.pc = "throttle" =>
                TokenTaken /\ fx.calls = 0 /\ fx'.calls = 1
           /\ fx'.calls > fx.calls /\ fx.pc # "throttle" =>
                /\ fx.pc = "backoff"
                /\ fx'.calls = fx.calls + 1
                /\ fx.acquired = 1
                /\ hist'.debited = hist.debited ]_vars

\* one call that made max_retries + 1 provider calls against the only token debited
OneTokenPerFetchWitness ==
    /\ Done
    /\ fx.calls = config.max_retries + 1
    /\ fx.calls > 1
    /\ hist.ops = 1
    /\ hist.debited = 1

(***************************************************************************)
(* The expiration in the metadata of an options entry.                     *)
(***************************************************************************)
\* C28: the expiration that a fetch_option_chain call stores in the metadata of the
\* entry it writes is the expiration that this same call fetched, also when two
\* threads call fetch_option_chain on one OptionsFetcher.
MetadataMatchesOwnFetch ==
    \A t \in Threads :
       OptionsDone(t) /\ ox.fr[t].wrote # NoneValue =>
          ox.fr[t].wrote.metadata.expiration = ox.fr[t].fetched

(***************************************************************************)
(* Blocking acquisition without a timeout.                                 *)
(***************************************************************************)
\* C29: with timeout=None, a running clock and no other acquirer, a blocking
\* acquire(tokens=n) with 0 < n <= bucket_size eventually returns True, and nothing
\* else comes out of it; with n > bucket_size it never returns and never raises: the
\* caller stays inside acquire.
InAcquire == thr[Waiter].pc # "idle"

BlockingAcquireLiveness ==
    /\ (InAcquire /\ thr[Waiter].n <= bucket_size)
          ~> (~InAcquire /\ thr[Waiter].result = "True")
    /\ [](thr[Waiter].result \in {"none", "True"})
    /\ [][InAcquire /\ thr[Waiter].n > bucket_size => InAcquire']_vars
    /\ [][InAcquire /\ thr[Waiter].n <= bucket_size /\ ~InAcquire' =>
             thr'[Waiter].result = "True"]_vars

\* a request above bucket_size still asleep after a refill that filled the bucket, and
\* a request of bucket_size granted after a sleep
BlockingAcquireLivenessWitness ==
    \/ /\ thr[Waiter].pc = "sleeping"
       /\ thr[Waiter].n > bucket_size
       /\ tokens = Capacity
       /\ last_update > 0
       /\ hist.debited > 0
    \/ /\ thr[Waiter].pc = "idle"
       /\ thr[Waiter].result = "True"
       /\ hist.debited = 2 * bucket_size
       /\ now = last_update
       /\ tokens = 0

====
